---- MODULE Spec2Model ----
(***************************************************************************)
(* Derived tables of beam-processing (src/src/outputDataFrame.py): lazy    *)
(* evaluation with an in-memory cell and a parquet cache file per table,   *)
(* the raw accessors they load from (src/src/input.py) and the by-year     *)
(* aggregators built on them; the directories of a run, their paths and   *)
(* their Geometry (src/src/input.py), and the comparison of scenarios      *)
(* (src/src/outputDataDirectory.py).                                       *)
(***************************************************************************)
EXTENDS Integers, Sequences, FiniteSets, TLC

VARIABLES
    built,      \* the Derived Table instances this run has constructed
    mem,        \* OutputDataFrame._dataFrame of every instance
    disk,       \* the files of the cache directory .tmp, by path
    rawDisk,    \* the raw source file of the run: 0 = absent, else its version
    rawMem,     \* the raw accessor's memo (RawOutputFile._file / EventsFile.eventTypes)
    watch,      \* the instance a call-counting spy is installed on ("-": none)
    loads,      \* spy: load() executions of watch since its last clearCache()/set
    preps,      \* spy: preprocess() executions of watch since its last clearCache()/set
    fpLoads,    \* spy: load() executions, by any instance with the fingerprint of
                \* watch, since the cache file of that fingerprint was last deleted
    origin,     \* spy: where the instance's in-memory value came from
    last,       \* the last operation: its name, instance, outcome and I/O events
    objs,       \* constructed instances by slot: their constructor arguments and _diskLocation
    hashCalls,  \* the calls of hash() made on the instance of a slot after construction
    hashRets,   \* the values those calls returned
    aggClass,           \* the class of the by-year aggregator under study
    pilatesInputDict,   \* its input mapping: the keys (year, iteration) in insertion order
    lastIterationPerYear,   \* its field __lastIterationPerYear
    yearToDataFrame,        \* its field __yearToDataFrame
    aggRet,             \* what its last load() returned
    loadable,           \* the sub-runs (year, iteration) whose table can be read
    aggMem,             \* the aggregator's own _dataFrame
    aggRaised,          \* whether the last read of the aggregator raised
    pending,            \* a load() in steps: the years its second loop has not finished
    searchX,            \* the x of the while loop of the year at the head of pending
    attempts,           \* spy: per year, the iterations tried and whether each succeeded
    geometries,         \* the Geometry instances constructed so far, in order
    pilatesRun,         \* the PilatesRunInputDirectory of the scenario
    pilatesOut,         \* the PilatesOutputData built on it
    accessor,           \* a RawOutputFile: its filePath and its cell _file
    source,             \* the file at its filePath: 0 = absent, else its version
    rawLast,            \* the last call on the accessor and what it did
    scratch,            \* the folder .tmp/<hash> of a TripUtilitiesFiles and what it holds
    inputDirectory,     \* an InputDirectory: its directoryPath and isLink
    appendCalls,        \* the calls of append made on it: argument and outcome
    analysis,           \* a PilatesAnalysis: its scenarios (_runs) and its dicts
    scenarioTables,     \* what the by-year table of each scenario gives when read
    anaLast,            \* the last property read and what it did
    eventsSource,       \* the rows of the raw events file of a BEAM run
    chunkSize,          \* the rows pd.read_csv hands over at a time
    eventsFile,         \* an EventsFile: its dict eventTypes
    evLast              \* the last collectEvents: its argument and what it did

cacheVars == <<built, watch, mem, disk, rawDisk, rawMem, loads, preps, fpLoads, origin, last>>
hashVars == <<objs, hashCalls, hashRets>>
searchVars == <<pending, searchX, attempts>>
aggVars == <<aggClass, pilatesInputDict, lastIterationPerYear, yearToDataFrame, aggRet,
             loadable, aggMem, aggRaised, searchVars>>
runVars == <<geometries, pilatesRun, pilatesOut>>
rawVars == <<accessor, source, rawLast, scratch>>
appendVars == <<inputDirectory, appendCalls>>
anaVars == <<analysis, scenarioTables, anaLast>>
evVars == <<eventsSource, chunkSize, eventsFile, evLast>>
dirVars == <<runVars, rawVars, appendVars, anaVars, evVars>>
vars == <<cacheVars, hashVars, aggVars, dirVars>>

----------------------------------------------------------------------------
(* Bounds *)

MaxVer == 2      \* versions the raw source file can take
MaxCount == 2    \* the spies count up to MaxCount and then stay there
MaxIter == 3     \* the largest iteration index of a sub-run
MaxKeys == 3     \* the most sub-runs an aggregator's input mapping holds

----------------------------------------------------------------------------
(* Values *)

\* Python's None
NoneV == [k |-> "None", ver |-> 0, cols |-> {}]

\* A DataFrame: what it is (k), the version of the raw data it was derived
\* from (ver) and the columns added to it after it was built (cols).
Tbl(kind, v, c) == [k |-> kind, ver |-> v, cols |-> c]

\* event types PersonTrips requires (three of the nine of __requiredTables:
\* the two that cached looks at and one that it does not); its cache is one
\* file per type
RequiredTables == {"ModeChoice", "PathTraversal", "Replanning"}
RequiredSeq == <<"ModeChoice", "PathTraversal", "Replanning">>

IsDict(v) == DOMAIN v = RequiredTables
IsDataFrame(v) == (~IsDict(v)) /\ v.k # "None"

\* file contents
AbsentF == [k |-> "absent", of |-> NoneV]
CorruptF == [k |-> "corrupt", of |-> NoneV]
\* DataFrame.to_parquet / pd.read_parquet
ToParquet(v) == [k |-> "parquet", of |-> v]
IsParquet(c) == c.k = "parquet"
ReadParquet(c) == c.of

----------------------------------------------------------------------------
(* The instances and their constructor arguments *)

Tabs == {"trips1", "trips2", "pmt1", "skims1", "pt1"}

\* self.__class__.__name__
ClassName(t) ==
    CASE t \in {"trips1", "trips2"} -> "ProcessedTripsFile"
      [] t = "pmt1" -> "TripPMT"
      [] t = "skims1" -> "ProcessedSkimsFile"
      [] t = "pt1" -> "PersonTrips"

\* self.inputDirectory.directoryPath
DirectoryPath(t) ==
    CASE t \in {"trips1", "trips2", "pmt1"} -> "/run/activitysim/year-2010-iteration-1"
      [] t = "skims1" -> "/run"
      [] t = "pt1" -> "/run/beam/year-2010-iteration-1"

\* a fingerprint of the root path alone
hashOfPath(t) == DirectoryPath(t)

\* hashlib.md5 fed the strings of ss one after the other: the digest stands
\* for the concatenation of what it was fed
RECURSIVE md5(_)
md5(ss) == IF ss = <<>> THEN "" ELSE Head(ss) \o md5(Tail(ss))

\* OutputDataFrame.hash
hash(t) == md5(<<DirectoryPath(t), ClassName(t)>>)

\* self._diskLocation
DiskLocation(t) == [fp |-> hash(t), grp |-> ""]
\* "{0}_{1}.parquet".format(loc, grp)
GrpLocation(t, g) == [fp |-> hash(t), grp |-> g]

Paths == {DiskLocation(t) : t \in Tabs} \cup {GrpLocation("pt1", g) : g \in RequiredTables}

\* the cache files an instance's own methods name
OwnPaths(t) ==
    IF ClassName(t) = "PersonTrips"
    THEN {DiskLocation(t)} \cup {GrpLocation(t, g) : g \in RequiredTables}
    ELSE {DiskLocation(t)}

RawFiles == {"tripsFile", "skims", "eventsFile"}

\* SkimsFile.__init__ hands the parsed matrix to RawOutputFile as file=distDf
SkimsTable == Tbl("skims", 0, {})

----------------------------------------------------------------------------
(* The methods, as functions from a program state s to the state they     *)
(* leave.  s.exc: an exception is propagating; s.val: the value returned;  *)
(* s.ev: the I/O and calls made so far; s.wok: the paths at which the file *)
(* system accepts a write during this operation.                           *)

Bump(n) == IF n < MaxCount THEN n + 1 ELSE n

\* sequencing: the state s1 a call leaves is handed to what follows it
Then(s1, Rest(_)) == CHOOSE r \in {Rest(x) : x \in {s1}} : TRUE
Watched(s, t) == t = s.watch
SameFp(s, t) == s.watch \in Tabs /\ hash(t) = hash(s.watch)

Note(s, e, t, p) == [s EXCEPT !.ev = Append(@, [e |-> e, t |-> t, p |-> p])]
Raise(s) == [s EXCEPT !.exc = TRUE, !.val = NoneV]
NoPath == [fp |-> "", grp |-> ""]

\* os.path.exists
Exists(s, p) == s.disk[p] # AbsentF

\* a cached property that never finds the files
cachedNever(s, t) == FALSE

\* OutputDataFrame.cached, PersonTrips.cached
cached(s, t) ==
    IF ClassName(t) = "PersonTrips"
    THEN Exists(s, GrpLocation(t, "ModeChoice")) /\ Exists(s, GrpLocation(t, "PathTraversal"))
    ELSE Exists(s, DiskLocation(t))

\* the files the cached property looks at
cachedEv(s, t) ==
    IF ClassName(t) = "PersonTrips"
    THEN Note(Note(s, "exists", t, GrpLocation(t, "ModeChoice")),
              "exists", t, GrpLocation(t, "PathTraversal"))
    ELSE Note(s, "exists", t, DiskLocation(t))

\* OutputDataFrame.clearCache (PersonTrips inherits it)
clearCache(s, t) ==
    LET s1 == cachedEv(s, t) IN
    IF cached(s, t)
    THEN LET s2 == Note(s1, "remove", t, DiskLocation(t)) IN
         IF Exists(s, DiskLocation(t))
         THEN [s2 EXCEPT !.disk[DiskLocation(t)] = AbsentF,
                         !.fpLoads = IF SameFp(s, t) THEN 0 ELSE @,
                         !.mem[t] = NoneV, !.origin[t] = "none"]
         ELSE Raise(s2)     \* os.remove: FileNotFoundError
    ELSE [s1 EXCEPT !.mem[t] = NoneV, !.origin[t] = "none"]

\* obj.to_parquet(path): raises when the file system rejects the write
to_parquet(s, t, p, obj) ==
    LET s1 == Note(s, "write", t, p) IN
    IF p \in s.wok THEN [s1 EXCEPT !.disk[p] = ToParquet(obj)] ELSE Raise(s1)

\* OutputDataFrame._write: the failure of to_parquet is swallowed
writeBase(s, t, obj) ==
    IF ~IsDataFrame(obj) THEN Raise(s)        \* assert isinstance(obj, pd.DataFrame)
    ELSE [to_parquet(s, t, DiskLocation(t), obj) EXCEPT !.exc = FALSE]

\* PersonTrips._write: one file per group, each failure swallowed
writeGroups(s, t, obj) ==
    IF ~IsDict(obj) THEN Raise(s)             \* assert isinstance(obj, dict)
    ELSE [s EXCEPT
            !.disk = [p \in Paths |->
                        IF \E g \in RequiredTables : p = GrpLocation(t, g) /\ p \in s.wok
                        THEN ToParquet(obj[CHOOSE g \in RequiredTables : p = GrpLocation(t, g)])
                        ELSE s.disk[p]],
            !.ev = @ \o [i \in 1..Len(RequiredSeq) |->
                           [e |-> "write", t |-> t, p |-> GrpLocation(t, RequiredSeq[i])]]]

_write(s, t, obj) ==
    IF ClassName(t) = "PersonTrips" THEN writeGroups(s, t, obj) ELSE writeBase(s, t, obj)

\* OutputDataFrame._read
readBase(s, t) ==
    LET s1 == Note(s, "read", t, DiskLocation(t))
        c == s.disk[DiskLocation(t)]
    IN  IF IsParquet(c) THEN [s1 EXCEPT !.val = ReadParquet(c)] ELSE Raise(s1)

\* PersonTrips._read: reads the file of every required table, stops at the first failure
readGroups(s, t) ==
    LET bad == {i \in 1..Len(RequiredSeq) : ~IsParquet(s.disk[GrpLocation(t, RequiredSeq[i])])}
        n == IF bad = {} THEN Len(RequiredSeq) ELSE CHOOSE i \in bad : \A j \in bad : i <= j
        s1 == [s EXCEPT !.ev = @ \o [i \in 1..n |->
                           [e |-> "read", t |-> t, p |-> GrpLocation(t, RequiredSeq[i])]]]
    IN  IF bad = {}
        THEN [s1 EXCEPT !.val = [g \in RequiredTables |-> ReadParquet(s.disk[GrpLocation(t, g)])]]
        ELSE Raise(s1)

_read(s, t) ==
    IF ClassName(t) = "PersonTrips" THEN readGroups(s, t) ELSE readBase(s, t)

\* RawOutputFile.file of the run's final_trips.csv.gz
file(s) ==
    IF s.rawMem["tripsFile"] = NoneV
    THEN LET s1 == Note(s, "rawread", "tripsFile", NoPath) IN
         IF s.raw = 0
         THEN [s1 EXCEPT !.val = NoneV]        \* FileNotFoundError: return None
         ELSE [s1 EXCEPT !.rawMem["tripsFile"] = Tbl("final_trips", s.raw, {}),
                         !.val = Tbl("final_trips", s.raw, {})]
    ELSE [s EXCEPT !.val = s.rawMem["tripsFile"]]

\* EventsFile.collectEvents: pd.read_csv raises when the events file is absent
collectEvents(s) ==
    LET s1 == Note(s, "rawread", "eventsFile", NoPath) IN
    IF s.raw = 0 THEN Raise(s1)
    ELSE [s1 EXCEPT !.rawMem["eventsFile"] = Tbl("events", s.raw, {})]

\* transformations.filterTrips: df.loc[:, [...]].copy()
filterTrips(s, df) ==
    IF df = NoneV THEN Raise(s) ELSE [s EXCEPT !.val = Tbl("trips", df.ver, {})]

\* transformations.doInexus: every group replaced by its processed table
doInexus(s, dfs) ==
    IF ~IsDict(dfs) THEN Raise(s)
    ELSE [s EXCEPT !.val = [g \in RequiredTables |-> Tbl(g, dfs[g].ver, {"emissions"})]]

\* preprocess of each class (OutputDataFrame.preprocess returns df)
preprocess(s, t, df) ==
    Then(Note([s EXCEPT !.preps = IF Watched(s, t) THEN Bump(@) ELSE @],
              "preprocess", t, NoPath), LAMBDA s1 :
    CASE ClassName(t) = "ProcessedTripsFile" -> filterTrips(s1, df)
      [] ClassName(t) = "PersonTrips" -> doInexus(s1, df)
      [] OTHER -> [s1 EXCEPT !.val = df])

RECURSIVE dataFrame(_, _)

\* TripPMT.load: reads the skims and the trips it was built on, adds the
\* column distanceInMiles to the trips table and groups it by mode
loadTripPMT(s) ==
    Then(dataFrame(s, "skims1"), LAMBDA s1 :
    IF s1.exc THEN s1 ELSE
    Then(dataFrame(s1, "trips1"), LAMBDA s2 :
    IF s2.exc THEN s2 ELSE
    [s2 EXCEPT !.mem["trips1"].cols = @ \cup {"distanceInMiles"},
               !.val = Tbl("pmt", s2.mem["trips1"].ver, {})]))

\* PersonTrips.load
loadPersonTrips(s) ==
    Then(IF s.rawMem["eventsFile"] = NoneV THEN collectEvents(s) ELSE s, LAMBDA s1 :
    IF s1.exc THEN s1
    ELSE [s1 EXCEPT !.val = [g \in RequiredTables |-> Tbl(g, s1.rawMem["eventsFile"].ver, {})]])

\* load of each class
load(s, t) ==
    Then(Note([s EXCEPT !.loads = IF Watched(s, t) THEN Bump(@) ELSE @,
                        !.fpLoads = IF SameFp(s, t) THEN Bump(@) ELSE @],
              "load", t, NoPath), LAMBDA s1 :
    CASE ClassName(t) = "ProcessedTripsFile" -> file(s1)
      [] ClassName(t) = "ProcessedSkimsFile" -> [s1 EXCEPT !.val = s1.rawMem["skims"]]
      [] ClassName(t) = "TripPMT" -> loadTripPMT(s1)
      [] ClassName(t) = "PersonTrips" -> loadPersonTrips(s1))

\* df = self.load(); self._dataFrame = self.preprocess(df); then the write:
\* self._write(...) on a cache miss, self._dataFrame.to_parquet(...) in the
\* fallback after a failed read
compute(s, t, miss) ==
    Then(load(s, t), LAMBDA l :
    IF l.exc THEN l ELSE
    Then(preprocess(l, t, l.val), LAMBDA p :
    IF p.exc THEN p ELSE
    Then([p EXCEPT !.mem[t] = p.val, !.origin[t] = "computed"], LAMBDA m :
    Then(IF miss THEN _write(m, t, p.val)
         ELSE IF IsDataFrame(p.val) THEN to_parquet(m, t, DiskLocation(t), p.val)
         ELSE Raise(m),                         \* AttributeError: no to_parquet
         LAMBDA w :
    IF w.exc THEN w ELSE [w EXCEPT !.val = w.mem[t]]))))

\* a getter that goes to the cache file although the cell holds a value
dataFrameFromDisk(s, t) ==
    Then(cachedEv(s, t), LAMBDA s1 :
    IF ~cached(s, t) THEN compute(s1, t, TRUE)
    ELSE
    Then(_read(s1, t), LAMBDA r :
    IF ~r.exc THEN [r EXCEPT !.mem[t] = r.val, !.origin[t] = "cache"]
    ELSE
    Then(clearCache([r EXCEPT !.exc = FALSE], t), LAMBDA c :
    IF c.exc THEN c ELSE compute(c, t, FALSE))))

\* OutputDataFrame.dataFrame (the property): result()
dataFrame(s, t) ==
    IF s.mem[t] # NoneV THEN [s EXCEPT !.val = s.mem[t]]
    ELSE
    Then(cachedEv(s, t), LAMBDA s1 :
    IF ~cached(s, t) THEN compute(s1, t, TRUE)
    ELSE
    Then(_read(s1, t), LAMBDA r :
    IF ~r.exc THEN [r EXCEPT !.mem[t] = r.val, !.origin[t] = "cache"]
    ELSE
    Then(clearCache([r EXCEPT !.exc = FALSE], t), LAMBDA c :
    IF c.exc THEN c ELSE compute(c, t, FALSE))))

\* OutputDataFrame.toCsv: writes <class name>.csv into the output directory,
\* which nothing in the program reads back
toCsv(s, t) ==
    Then(dataFrame(s, t), LAMBDA s1 :
    IF s1.exc THEN s1
    ELSE IF ~IsDataFrame(s1.val) THEN Raise(s1)          \* AttributeError: no to_csv
    ELSE [Note(s1, "csv", t, NoPath) EXCEPT !.val = NoneV])

\* OutputDataFrame.addMapping: self.dataFrame[toCol] = ...; return self.dataFrame
\* (the table ProcessedSkimsFile computed is the object SkimsFile holds)
addMapping(s, t, toCol) ==
    Then(dataFrame(s, t), LAMBDA s1 :
    IF s1.exc THEN s1
    ELSE IF ~IsDataFrame(s1.val) THEN Raise(s1)          \* AttributeError: no index
    ELSE [s1 EXCEPT !.mem[t].cols = @ \cup {toCol},
                    !.rawMem["skims"].cols =
                        IF ClassName(t) = "ProcessedSkimsFile" /\ s1.origin[t] = "computed"
                        THEN @ \cup {toCol} ELSE @,
                    !.val = [s1.mem[t] EXCEPT !.cols = @ \cup {toCol}]])

\* the dataFrame setter
setDataFrame(s, t, df) ==
    [s EXCEPT !.mem[t] = df, !.origin[t] = IF df = NoneV THEN "none" ELSE "user"]

----------------------------------------------------------------------------
(* The state machine *)

BuiltPaths == UNION {OwnPaths(t) : t \in built}

\* the program state, with the paths at which writes succeed during the operation
Cur(w) ==
    [mem |-> mem, disk |-> disk, rawMem |-> rawMem, raw |-> rawDisk,
     loads |-> loads, preps |-> preps, fpLoads |-> fpLoads,
     origin |-> origin, watch |-> watch, ev |-> <<>>, exc |-> FALSE, val |-> NoneV, wok |-> w]

Commit(s, op, t) ==
    /\ mem' = s.mem
    /\ disk' = s.disk
    /\ rawMem' = s.rawMem
    /\ loads' = s.loads
    /\ preps' = s.preps
    /\ fpLoads' = s.fpLoads
    /\ origin' = s.origin
    /\ last' = [op |-> op, tab |-> t, raised |-> s.exc, ret |-> s.val, ev |-> s.ev]
    /\ UNCHANGED <<built, watch, rawDisk, hashVars, aggVars, dirVars>>

\* no instance under study for its fingerprint, no aggregator
NoObjs ==
    /\ objs = <<>>
    /\ hashCalls = <<>>
    /\ hashRets = <<>>

\* no load() in steps
NoSearch ==
    /\ pending = <<>>
    /\ searchX = 0
    /\ attempts = <<>>

NoAggregator ==
    /\ aggClass = "-"
    /\ pilatesInputDict = <<>>
    /\ lastIterationPerYear = <<>>
    /\ yearToDataFrame = <<>>
    /\ aggRet = "-"
    /\ loadable = {}
    /\ aggMem = [k |-> "None", rows |-> <<>>]
    /\ aggRaised = FALSE
    /\ NoSearch

\* no run directory, no output data, no Geometry
NoScenario ==
    /\ geometries = <<>>
    /\ pilatesRun = [k |-> "None"]
    /\ pilatesOut = [k |-> "None"]

\* no raw accessor under study
NoAccessor ==
    /\ accessor = [k |-> "None"]
    /\ source = 0
    /\ rawLast = [op |-> "-"]
    /\ scratch = [k |-> "absent", ver |-> 0]

\* no directory whose append is under study
NoAppend ==
    /\ inputDirectory = [k |-> "None"]
    /\ appendCalls = <<>>

\* no scenario comparison
NoAnalysis ==
    /\ analysis = [k |-> "None"]
    /\ scenarioTables = <<>>
    /\ anaLast = [op |-> "-"]

\* no events file under study
NoEvents ==
    /\ eventsSource = <<>>
    /\ chunkSize = 0
    /\ eventsFile = [k |-> "None"]
    /\ evLast = [op |-> "-"]

NoDirectories ==
    /\ NoScenario
    /\ NoAccessor
    /\ NoAppend
    /\ NoAnalysis
    /\ NoEvents

\* the spies start again at the caller's clearCache() and set
ResetSpy(s, t) == IF Watched(s, t) THEN [s EXCEPT !.loads = 0, !.preps = 0] ELSE s

UserTable == Tbl("user", 0, {})

\* the state after construction of the instances of scenario b, spy on w
Start(b, w) ==
    /\ built = b
    /\ watch = w
    /\ mem = [t \in Tabs |-> NoneV]
    /\ disk = [p \in Paths |-> AbsentF]
    /\ rawDisk \in 0..MaxVer
    /\ rawMem = [f \in RawFiles |-> IF f = "skims" THEN SkimsTable ELSE NoneV]
    /\ loads = 0
    /\ preps = 0
    /\ fpLoads = 0
    /\ origin = [t \in Tabs |-> "none"]
    /\ last = [op |-> "init", tab |-> "-", raised |-> FALSE, ret |-> NoneV, ev |-> <<>>]
    /\ NoObjs
    /\ NoAggregator
    /\ NoDirectories

\* a read of t.dataFrame
Result(t) ==
    \E w \in SUBSET BuiltPaths : \E s \in {dataFrame(Cur(w), t)} : Commit(s, "result", t)

\* t.clearCache()
ClearCache(t) ==
    \E s \in {ResetSpy(clearCache(Cur({}), t), t)} : Commit(s, "clearCache", t)

\* t.dataFrame = df
SetDF(t) ==
    \E df \in {UserTable, NoneV} :
        \E s \in {ResetSpy(setDataFrame(Cur({}), t, df), t)} : Commit(s, "set", t)

\* t.addMapping(mapping, fromCol, "mapped")
AddMapping(t) ==
    \E w \in SUBSET BuiltPaths :
        \E s \in {addMapping(Cur(w), t, "mapped")} : Commit(s, "addMapping", t)

\* t.toCsv()
ToCsv(t) ==
    \E w \in SUBSET BuiltPaths : \E s \in {toCsv(Cur(w), t)} : Commit(s, "toCsv", t)

\* the simulation rewrites or removes the raw source file
ChangeRaw ==
    /\ \E v \in 0..MaxVer : v # rawDisk /\ rawDisk' = v
    /\ last' = [op |-> "env", tab |-> "-", raised |-> FALSE, ret |-> NoneV, ev |-> <<>>]
    /\ UNCHANGED <<built, watch, mem, disk, rawMem, loads, preps, fpLoads, origin>>
    /\ UNCHANGED <<hashVars, aggVars, dirVars>>

\* a cache file becomes unreadable (truncated, or written in another format)
Tamper ==
    /\ \E p \in BuiltPaths :
          /\ IsParquet(disk[p])
          /\ disk' = [disk EXCEPT ![p] = CorruptF]
    /\ last' = [op |-> "env", tab |-> "-", raised |-> FALSE, ret |-> NoneV, ev |-> <<>>]
    /\ UNCHANGED <<built, watch, mem, rawDisk, rawMem, loads, preps, fpLoads, origin>>
    /\ UNCHANGED <<hashVars, aggVars, dirVars>>

\* the tables the driver script reads and clears itself; it reaches the
\* skims table only through TripPMT.load
Called == built \ {"skims1"}

Next ==
    \/ \E t \in Called : Result(t)
    \/ \E t \in Called : ClearCache(t)
    \/ \E t \in Called : SetDF(t)
    \/ \E t \in Called : AddMapping(t)
    \/ \E t \in Called : ToCsv(t)
    \/ ChangeRaw
    \/ Tamper

\* two tables of one type on one root, or the person trips of a run; every
\* operation of a table is called
Init ==
    \/ Start({"trips1", "trips2"}, "trips1")
    \/ Start({"pt1"}, "pt1")

Spec == Init /\ [][Next]_vars

\* a trip table, a second instance of it, and the TripPMT and skims tables
\* built on the first, or the person trips of a run; the tables are read,
\* cleared and exported
InitDep ==
    \/ Start({"trips1", "trips2", "pmt1", "skims1"}, "-")
    \/ Start({"pt1"}, "-")

NextDep ==
    \/ \E t \in Called : Result(t)
    \/ \E t \in Called : ClearCache(t)
    \/ \E t \in Called : ToCsv(t)
    \/ ChangeRaw
    \/ Tamper

SpecDep == InitDep /\ [][NextDep]_vars

----------------------------------------------------------------------------
(* Vocabulary of the properties *)

\* the step taken is operation op of instance t
Did(op, t) == last'.op = op /\ last'.tab = t

\* positions of the last operation's events of kind e
EvOf(l, e) == {i \in 1..Len(l.ev) : l.ev[i].e = e}
\* the same, restricted to instance t
EvOfTab(l, e, t) == {i \in EvOf(l, e) : l.ev[i].t = t}

\* isCached() of t on the files d
IsCachedOn(d, t) == cached([disk |-> d], t)

\* every file the cache of t consists of is there and deserializes
ReadableCache(d, t) == \A p \in OwnPaths(t) \ (IF ClassName(t) = "PersonTrips" THEN {DiskLocation(t)} ELSE {}) :
                          IsParquet(d[p])

\* the cache of t on the files d holds exactly the value v
HoldsValue(d, t, v) ==
    IF ClassName(t) = "PersonTrips"
    THEN IsDict(v) /\ \A g \in RequiredTables : d[GrpLocation(t, g)] = ToParquet(v[g])
    ELSE d[DiskLocation(t)] = ToParquet(v)

\* the raw source of the run can be loaded: it is on disk or already parsed
SourceLoadable == rawDisk # 0 \/ \A f \in RawFiles : rawMem[f] # NoneV

----------------------------------------------------------------------------
(* C1 *)

----------------------------------------------------------------------------
(* C2 *)

\* C2: a read of a table that has neither an in-memory value nor a cache
\* file runs load() and then preprocess(), once each, and when it returns the
\* cell holds the returned value, isCached() is true and the cache file
\* holds exactly the returned value.
C2_MissFillsCache ==
    [][\A t \in Tabs :
          (mem[t] = NoneV /\ ~IsCachedOn(disk, t) /\ Did("result", t) /\ ~last'.raised) =>
              /\ Cardinality(EvOfTab(last', "load", t)) = 1
              /\ Cardinality(EvOfTab(last', "preprocess", t)) = 1
              /\ \A i \in EvOfTab(last', "load", t) :
                    \A j \in EvOfTab(last', "preprocess", t) : i < j
              /\ mem'[t] = last'.ret
              /\ IsCachedOn(disk', t)
              /\ HoldsValue(disk', t, last'.ret)]_vars

----------------------------------------------------------------------------
(* C4 *)

\* C4: a read of a table of any type, PersonTrips included, whose cache
\* files are present but cannot be deserialized clears the cache, runs
\* load() and preprocess() again, re-writes the cache and returns the
\* recomputed value; no exception of the reading, the clearing or the
\* re-writing reaches the caller.
C4_CorruptCacheRecovers ==
    [][\A t \in Tabs :
          (/\ mem[t] = NoneV /\ IsCachedOn(disk, t) /\ ~ReadableCache(disk, t)
           /\ SourceLoadable /\ Did("result", t)) =>
              /\ ~last'.raised
              /\ EvOfTab(last', "load", t) # {}
              /\ EvOfTab(last', "preprocess", t) # {}
              /\ mem'[t] = last'.ret /\ last'.ret # NoneV
              /\ HoldsValue(disk', t, last'.ret)]_vars

----------------------------------------------------------------------------
(* C5 *)

\* C5: clearCache() raises nothing; after it isCached() is false and the
\* cell is empty, so that the next read runs load() again; on a table that
\* was never cached it changes nothing.
C5_ClearCacheResets ==
    [][\A t \in Tabs :
          /\ Did("clearCache", t) =>
                /\ ~last'.raised
                /\ ~IsCachedOn(disk', t)
                /\ mem'[t] = NoneV
                /\ (~IsCachedOn(disk, t) /\ mem[t] = NoneV) => (disk' = disk /\ mem' = mem)
          /\ (last.op = "clearCache" /\ last.tab = t /\ Did("result", t)) =>
                EvOfTab(last', "load", t) # {}]_vars

----------------------------------------------------------------------------
(* C7 *)

----------------------------------------------------------------------------
(* C3 *)

\* two instances of one type on one root
Twins(a, b) ==
    /\ a \in built /\ b \in built /\ a # b
    /\ ClassName(a) = ClassName(b) /\ DirectoryPath(a) = DirectoryPath(b)

\* C3: after an instance computed its result and wrote its cache file, a
\* read of a fresh instance of the same type and root returns a value equal
\* to the in-memory result of the first by deserializing the file, without a
\* load() or preprocess() of its own and without any call on another table.
C3_CacheRoundTrip ==
    [][\A a, b \in Tabs :
          (/\ Twins(a, b) /\ origin[a] = "computed" /\ ReadableCache(disk, a)
           /\ mem[b] = NoneV /\ Did("result", b)) =>
              /\ ~last'.raised
              /\ last'.ret = mem[a]
              /\ EvOfTab(last', "read", b) # {}
              /\ EvOf(last', "load") = {} /\ EvOf(last', "preprocess") = {}
              /\ \A i \in 1..Len(last'.ev) : last'.ev[i].t = b]_vars

----------------------------------------------------------------------------
(* C8 *)

\* C8: the in-memory value of a table, once set, stays the same value until
\* the table's own clearCache() or an explicit set; no operation on another
\* table changes or extends it.
C8_UpstreamUntouched ==
    [][\A t \in Tabs :
          (/\ mem[t] # NoneV
           /\ ~Did("clearCache", t) /\ ~Did("set", t) /\ ~Did("addMapping", t)) =>
              mem'[t] = mem[t]]_vars

----------------------------------------------------------------------------
(* C9 *)

\* the events of an operation that name a cache file
FileEvents(l) == {i \in 1..Len(l.ev) : l.ev[i].p # NoPath}

----------------------------------------------------------------------------
(* The fingerprint as a function of the constructor arguments *)

Slots == {1, 2}
Roots == {"/runA", "/runB"}
OutDirs == {"out", "out2"}
Geoms == {"sfbay", "austin"}
IndexKeys == {"trip_mode", "primary_purpose"}
SourceClasses == {"LinkStatsFromPathTraversals", "LinkStatsFile"}

\* TripPMT(outputDataDirectory, tripsFile, skimsFile),
\* TripModeCount(outputDataDirectory, tripsFile, geometry, indexedOn),
\* LabeledLinkStatsFile(outputDataDirectory, source, labeledNetwork, geometry);
\* root is the directoryPath of the input directory the instance ends up with
CtorArgs ==
    [cls : {"TripPMT"}, root : Roots, outdir : OutDirs,
     geometry : {"-"}, indexedOn : {"trip_mode"}, source : {"-"}]
    \cup
    [cls : {"TripModeCount"}, root : Roots, outdir : OutDirs,
     geometry : Geoms, indexedOn : IndexKeys, source : {"-"}]
    \cup
    [cls : {"LabeledLinkStatsFile"}, root : Roots, outdir : OutDirs,
     geometry : Geoms, indexedOn : {"link"}, source : SourceClasses]

Unbuilt == [cls |-> "-", root |-> "", outdir |-> "", geometry |-> "-",
            indexedOn |-> "", source |-> "-", loc |-> ""]

\* a hash that also feeds the output directory to the digest
hashWithOutdir(o) == md5(<<o.root, o.cls, o.outdir>>)

\* OutputDataFrame.hash and its override LabeledLinkStatsFile.hash
hashOf(o) ==
    IF o.cls = "LabeledLinkStatsFile"
    THEN md5(<<o.root, o.cls, o.source>>)
    ELSE md5(<<o.root, o.cls>>)

\* os.path.join(".tmp", self.hash() + ".parquet")
diskLocationOf(o) == ".tmp/" \o hashOf(o) \o ".parquet"

\* no table, no raw file: the cache machinery is not exercised
NoTables ==
    /\ built = {}
    /\ watch = "-"
    /\ mem = [t \in Tabs |-> NoneV]
    /\ disk = [p \in Paths |-> AbsentF]
    /\ rawDisk = 0
    /\ rawMem = [f \in RawFiles |-> NoneV]
    /\ loads = 0
    /\ preps = 0
    /\ fpLoads = 0
    /\ origin = [t \in Tabs |-> "none"]
    /\ last = [op |-> "init", tab |-> "-", raised |-> FALSE, ret |-> NoneV, ev |-> <<>>]

InitHash ==
    /\ objs = [i \in Slots |-> Unbuilt]
    /\ hashCalls = [i \in Slots |-> 0]
    /\ hashRets = [i \in Slots |-> {}]
    /\ NoTables
    /\ NoAggregator
    /\ NoDirectories

\* __init__: stores the arguments and computes _diskLocation
Construct(i) ==
    /\ objs[i] = Unbuilt
    /\ \E a \in CtorArgs :
          objs' = [objs EXCEPT ![i] =
                      [cls |-> a.cls, root |-> a.root, outdir |-> a.outdir,
                       geometry |-> a.geometry, indexedOn |-> a.indexedOn,
                       source |-> a.source, loc |-> diskLocationOf(a)]]
    /\ UNCHANGED <<hashCalls, hashRets, cacheVars, aggVars, dirVars>>

\* a call of hash() on a constructed instance
CallHash(i) ==
    /\ objs[i] # Unbuilt
    /\ hashCalls[i] < MaxCount
    /\ hashCalls' = [hashCalls EXCEPT ![i] = @ + 1]
    /\ hashRets' = [hashRets EXCEPT ![i] = @ \cup {hashOf(objs[i])}]
    /\ UNCHANGED <<objs, cacheVars, aggVars, dirVars>>

NextHash ==
    \/ \E i \in Slots : Construct(i)
    \/ \E i \in Slots : CallHash(i)

SpecHash == InitHash /\ [][NextHash]_vars

----------------------------------------------------------------------------
(* C6 *)

\* every call of hash() on an instance returned one value, the one its
\* _diskLocation was made of
HashIsStable(i) ==
    \A h \in hashRets[i] : objs[i].loc = ".tmp/" \o h \o ".parquet"

\* the instances of two slots have the same fingerprint and cache path
SameFingerprint(i, j) ==
    /\ objs[i].loc = objs[j].loc
    /\ \A h \in hashRets[i] : \A g \in hashRets[j] : h = g

\* C6 (as stated): the fingerprint is a function of the root path string and
\* the type name only: two instances with the same root path and type name
\* have the same fingerprint and cache path whatever their other
\* constructor arguments are, and repeated calls return the same value.
C6_RootAndTypeOnly ==
    /\ \A i \in Slots : HashIsStable(i)
    /\ \A i, j \in Slots :
          (/\ objs[i] # Unbuilt /\ objs[j] # Unbuilt
           /\ objs[i].root = objs[j].root /\ objs[i].cls = objs[j].cls)
              => SameFingerprint(i, j)

\* C6 (amended): the fingerprint is a function of the root path string, the
\* type name and, for LabeledLinkStatsFile, the type name of its source: two
\* instances that agree on these have the same fingerprint and cache path
\* whatever their output directory, geometry and grouping keys are, and
\* repeated calls return the same value.
C6_RootTypeAndSource ==
    /\ \A i \in Slots : HashIsStable(i)
    /\ \A i, j \in Slots :
          (/\ objs[i] # Unbuilt /\ objs[j] # Unbuilt
           /\ objs[i].root = objs[j].root /\ objs[i].cls = objs[j].cls
           /\ objs[i].source = objs[j].source)
              => SameFingerprint(i, j)

\* two instances of one type on one root with different output directory,
\* geometry and grouping key, each asked twice for its fingerprint
C6_Witness ==
    /\ objs[1] # Unbuilt /\ objs[2] # Unbuilt
    /\ objs[1].root = objs[2].root /\ objs[1].cls = objs[2].cls
    /\ objs[1].source = objs[2].source
    /\ objs[1].outdir # objs[2].outdir
    /\ objs[1].geometry # objs[2].geometry
    /\ objs[1].indexedOn # objs[2].indexedOn
    /\ hashCalls[1] >= 2 /\ hashCalls[2] >= 2
    /\ hashRets[1] = hashRets[2] /\ Cardinality(hashRets[1]) = 1

----------------------------------------------------------------------------
(* The by-year aggregators *)

Years == {2010, 2015}
\* PilatesRunInputDirectory numbers the sub-runs of a year -1, 1, 2, ...
Iterations == {-1} \cup (1..MaxIter)
Keys == Years \X Iterations

\* a dict keyed by (year, iteration): its keys in insertion order
Mappings ==
    {m \in UNION {[1..n -> Keys] : n \in 0..MaxKeys} :
        \A i, j \in DOMAIN m : m[i] = m[j] => i = j}

KeysOf(m) == {m[i] : i \in DOMAIN m}

ActivityAggregators ==
    {"TripPMTByYear", "TripPMTByCountyByYear", "TripModeCountByYear",
     "TripModeCountByCountyByYear", "MandatoryLocationByTazByYear"}

NetworkAggregators == {"ModeVMTByYear", "ModeEnergyByYear", "CongestionInfoByYear"}

\* the table of the sub-run an aggregator of class c reads
SubTable(c) ==
    CASE c = "TripPMTByYear" -> "tripPMT"
      [] c = "TripPMTByCountyByYear" -> "tripPMTByOrigin"
      [] c = "TripModeCountByYear" -> "tripModeCount"
      [] c = "TripModeCountByCountyByYear" -> "tripModeCountByOrigin"
      [] c = "MandatoryLocationByTazByYear" -> "mandatoryLocationsByTaz"
      [] c = "ModeVMTByYear" -> "modeVMT"
      [] c = "ModeEnergyByYear" -> "modeEnergy"
      [] c = "CongestionInfoByYear" -> "tazTrafficVolumes"

\* data.<table>.dataFrame of the sub-run (yr, it)
SubRunTable(c, yr, it) == [table |-> SubTable(c), yr |-> yr, it |-> it]

\* values of the aggregator's cell: None, a table by year, the class pd.DataFrame
AggNone == [k |-> "None", rows |-> <<>>]
AggTable(ytd) == [k |-> "DataFrame", rows |-> ytd]
AggClass == [k |-> "class", rows |-> <<>>]

\* the first loop of load(): the else belongs to "if yr in ...", so that an
\* iteration is recorded only for a year that has none yet
RECURSIVE scanIterations(_, _)
scanIterations(keys, lipy) ==
    IF keys = <<>> THEN lipy
    ELSE LET yr == Head(keys)[1]
             it == Head(keys)[2]
         IN  scanIterations(Tail(keys),
                IF yr \in DOMAIN lipy
                THEN (IF it <= lipy[yr] THEN lipy ELSE lipy)
                ELSE (yr :> it) @@ lipy)

\* the second loop of load(); reading the table of a sub-run that has none
\* raises, and the exception leaves load()
RECURSIVE collectTables(_, _, _, _, _)
collectTables(c, keys, ld, lipy, ytd) ==
    IF keys = <<>> THEN [ytd |-> ytd, exc |-> FALSE]
    ELSE LET yr == Head(keys)[1]
             it == Head(keys)[2]
         IN  IF lipy[yr] # it THEN collectTables(c, Tail(keys), ld, lipy, ytd)
             ELSE IF Head(keys) \notin ld THEN [ytd |-> ytd, exc |-> TRUE]
             ELSE collectTables(c, Tail(keys), ld, lipy, (yr :> SubRunTable(c, yr, it)) @@ ytd)

\* the loop of MandatoryLocationByTazByYear.load
RECURSIVE collectFirst(_, _, _, _)
collectFirst(c, keys, ld, ytd) ==
    IF keys = <<>> THEN [ytd |-> ytd, exc |-> FALSE]
    ELSE LET yr == Head(keys)[1]
             it == Head(keys)[2]
         IN  IF yr \in DOMAIN ytd THEN collectFirst(c, Tail(keys), ld, ytd)
             ELSE IF Head(keys) \notin ld THEN [ytd |-> ytd, exc |-> TRUE]
             ELSE collectFirst(c, Tail(keys), ld, (yr :> SubRunTable(c, yr, it)) @@ ytd)

\* the first loop of load() of the network aggregators: the largest iteration
RECURSIVE scanLargest(_, _)
scanLargest(keys, lipy) ==
    IF keys = <<>> THEN lipy
    ELSE LET yr == Head(keys)[1]
             it == Head(keys)[2]
         IN  scanLargest(Tail(keys),
                IF yr \in DOMAIN lipy
                THEN (IF it >= lipy[yr] THEN (yr :> it) @@ lipy ELSE lipy)
                ELSE (yr :> it) @@ lipy)

\* ModeVMTByYear.load starts its search with x = 2
FirstTried == 2

\* where the search of a year starts
startOfSearch(c, lipy, yr) == IF c = "ModeVMTByYear" THEN FirstTried ELSE lipy[yr]

\* while x > -2: the first x, going down, whose key is in the mapping and
\* whose table can be read; -2 when the search runs out
RECURSIVE searchBackward(_, _, _, _)
searchBackward(m, ld, yr, x) ==
    IF ~(x > -2) THEN -2
    ELSE IF <<yr, x>> \in KeysOf(m) /\ <<yr, x>> \in ld THEN x
    ELSE searchBackward(m, ld, yr, x - 1)

\* the second loop of load() of the network aggregators
collectBackward(c, m, ld, lipy, ytd) ==
    LET found == [yr \in DOMAIN lipy |-> searchBackward(m, ld, yr, startOfSearch(c, lipy, yr))]
    IN  [yr \in DOMAIN ytd \cup {y \in DOMAIN lipy : found[y] # -2} |->
            IF yr \in DOMAIN lipy /\ found[yr] # -2
            THEN SubRunTable(c, yr, found[yr])
            ELSE ytd[yr]]

\* any(d) of a dict: one of its keys is truthy
any(d) == \E k \in DOMAIN d : k # 0

InitAgg ==
    /\ aggClass \in ActivityAggregators \cup NetworkAggregators
    /\ pilatesInputDict \in Mappings
    /\ loadable \in SUBSET KeysOf(pilatesInputDict)
    /\ lastIterationPerYear = <<>>
    /\ yearToDataFrame = <<>>
    /\ aggRet = "-"
    /\ aggMem = AggNone
    /\ aggRaised = FALSE
    /\ NoSearch
    /\ NoTables
    /\ NoObjs
    /\ NoDirectories

\* the getter after load(): self._dataFrame = self.preprocess(df), then
\* _write asserts that it is a DataFrame
Assigned(ret, ytd) ==
    /\ aggRet' = ret
    /\ aggMem' = CASE ret = "concat" -> AggTable(ytd)
                   [] ret = "pd.DataFrame()" -> AggTable(<<>>)
                   [] ret = "pd.DataFrame" -> AggClass
                   [] OTHER -> aggMem
    /\ aggRaised' = (ret \notin {"concat", "pd.DataFrame()"})

\* a read of an aggregator that records a first iteration per year, its cell
\* empty and no cache file of its own
LoadByYear ==
    /\ aggClass \in ActivityAggregators \ {"MandatoryLocationByTazByYear"}
    /\ aggMem = AggNone
    /\ LET lipy == scanIterations(pilatesInputDict, lastIterationPerYear)
           r == collectTables(aggClass, pilatesInputDict, loadable, lipy, yearToDataFrame)
       IN  /\ lastIterationPerYear' = lipy
           /\ yearToDataFrame' = r.ytd
           /\ Assigned(IF r.exc THEN "raised"
                       ELSE IF any(r.ytd) THEN "concat" ELSE "pd.DataFrame", r.ytd)
    /\ UNCHANGED <<aggClass, pilatesInputDict, loadable, searchVars, cacheVars, hashVars, dirVars>>

\* the same of MandatoryLocationByTazByYear; pd.concat of an empty dict raises
LoadMandatory ==
    /\ aggClass = "MandatoryLocationByTazByYear"
    /\ aggMem = AggNone
    /\ LET r == collectFirst(aggClass, pilatesInputDict, loadable, yearToDataFrame)
       IN  /\ yearToDataFrame' = r.ytd
           /\ Assigned(IF r.exc THEN "raised"
                       ELSE IF DOMAIN r.ytd # {} THEN "concat" ELSE "ValueError", r.ytd)
    /\ UNCHANGED <<aggClass, pilatesInputDict, loadable, lastIterationPerYear,
                   searchVars, cacheVars, hashVars, dirVars>>

\* the same of a network aggregator
LoadNetwork ==
    /\ aggClass \in NetworkAggregators
    /\ aggMem = AggNone
    /\ LET lipy == scanLargest(pilatesInputDict, lastIterationPerYear)
           ytd == collectBackward(aggClass, pilatesInputDict, loadable, lipy, yearToDataFrame)
       IN  /\ lastIterationPerYear' = lipy
           /\ yearToDataFrame' = ytd
           /\ Assigned(IF any(ytd) THEN "concat" ELSE "pd.DataFrame()", ytd)
    /\ UNCHANGED <<aggClass, pilatesInputDict, loadable, searchVars, cacheVars, hashVars, dirVars>>

NextAgg == LoadByYear \/ LoadMandatory \/ LoadNetwork

SpecAgg == InitAgg /\ [][NextAgg]_vars

----------------------------------------------------------------------------
(* C10 *)

\* the years of a mapping, and the largest iteration it has for a year
YearsOf(m) == {m[i][1] : i \in DOMAIN m}
LastIterationOf(m, yr) ==
    CHOOSE it \in Iterations :
        /\ <<yr, it>> \in KeysOf(m)
        /\ \A i \in DOMAIN m : m[i][1] = yr => m[i][2] <= it

\* C10: for every input mapping, in any insertion order, an activity-model
\* aggregator that has loaded holds, for each year of the mapping, the table
\* of the sub-run with the largest iteration index the mapping has for that
\* year.
C10_TakesLastIteration ==
    (aggClass \in ActivityAggregators /\ aggRet # "-" /\ loadable = KeysOf(pilatesInputDict)) =>
        \A yr \in YearsOf(pilatesInputDict) :
            /\ yr \in DOMAIN yearToDataFrame
            /\ yearToDataFrame[yr] =
                  SubRunTable(aggClass, yr, LastIterationOf(pilatesInputDict, yr))

----------------------------------------------------------------------------
(* C11 *)

\* the iterations of a year whose table can be read
LoadableIterations(yr) == {it \in Iterations : <<yr, it>> \in loadable}
Largest(S) == CHOOSE x \in S : \A y \in S : y <= x

\* C11: a network aggregator that has loaded holds, for every year of the
\* mapping that has a readable table, the table of the greatest iteration,
\* not above the year's largest, whose table can be read: the search goes
\* down from the year's largest iteration to -1.
C11_SearchesBackwardFromLast ==
    (aggClass \in NetworkAggregators /\ aggRet # "-") =>
        \A yr \in YearsOf(pilatesInputDict) :
            LoadableIterations(yr) # {} =>
                /\ yr \in DOMAIN yearToDataFrame
                /\ yearToDataFrame[yr] =
                      SubRunTable(aggClass, yr, Largest(LoadableIterations(yr)))

----------------------------------------------------------------------------
(* C12 *)

\* C12: a read of an aggregator of either family does not raise and returns
\* a table holding exactly the years of the mapping that have a readable
\* table, each once, keyed by year; with no such year it returns an empty
\* table.
C12_OmitsYearsWithoutTable ==
    aggRet # "-" =>
        /\ ~aggRaised
        /\ aggMem.k = "DataFrame"
        /\ DOMAIN aggMem.rows =
              {yr \in YearsOf(pilatesInputDict) : LoadableIterations(yr) # {}}

----------------------------------------------------------------------------
(* Paths (src/src/input.py), on a POSIX platform *)

Digits == <<"0", "1", "2", "3", "4", "5", "6", "7", "8", "9">>

RECURSIVE StrNat(_)
StrNat(n) == IF n < 10 THEN Digits[n + 1] ELSE StrNat(n \div 10) \o Digits[(n % 10) + 1]

\* "{0}".format(n) of an int
format(n) == IF n < 0 THEN "-" \o StrNat(-n) ELSE StrNat(n)

\* sub in s
In(sub, s) == \E i \in 1..(Len(s) - Len(sub) + 1) : SubSeq(s, i, i + Len(sub) - 1) = sub
startswith(s, pre) == Len(s) >= Len(pre) /\ SubSeq(s, 1, Len(pre)) = pre
endswith(s, suf) == Len(s) >= Len(suf) /\ SubSeq(s, Len(s) - Len(suf) + 1, Len(s)) = suf

\* sep.join(parts)
RECURSIVE join(_, _)
join(sep, parts) ==
    IF Len(parts) = 0 THEN ""
    ELSE IF Len(parts) = 1 THEN parts[1]
    ELSE parts[1] \o sep \o join(sep, Tail(parts))

\* os.path.join(a, *p)
RECURSIVE os_path_join(_, _)
os_path_join(a, p) ==
    IF Len(p) = 0 THEN a
    ELSE LET b == Head(p)
             path == IF startswith(b, "/") THEN b
                     ELSE IF a = "" \/ endswith(a, "/") THEN a \o b
                     ELSE a \o "/" \o b
         IN  os_path_join(path, Tail(p))

\* the arguments append is given: a str, a list of str, a tuple of str
StrArg(x) == [t |-> "str", v |-> <<x>>]
ListArg(xs) == [t |-> "list", v |-> xs]
TupleArg(xs) == [t |-> "tuple", v |-> xs]

\* what a call leaves: a str, None, or an exception
Returned(p) == [exc |-> "-", none |-> FALSE, val |-> p]
ReturnedNone == [exc |-> "-", none |-> TRUE, val |-> ""]
Raised(e) == [exc |-> e, none |-> TRUE, val |-> ""]

\* InputDirectory.__init__: self.isLink = "://" in path
isLink(path) == In("://", path)

\* an append that stops at the first segment
appendFirst(directoryPath, relativePath) ==
    IF Len(relativePath.v) = 0 THEN Returned(directoryPath)
    ELSE Returned(directoryPath \o "/" \o relativePath.v[1])

\* InputDirectory.append; [self.directoryPath] + relativePath is list + tuple
\* when relativePath is a tuple
append(directoryPath, relativePath) ==
    IF isLink(directoryPath)
    THEN IF relativePath.t \in {"list", "tuple"}
         THEN IF relativePath.t = "list"
              THEN Returned(join("/", <<directoryPath>> \o relativePath.v))
              ELSE Raised("TypeError")
         ELSE IF relativePath.t = "str"
              THEN Returned(join("/", <<directoryPath>> \o relativePath.v))
              ELSE Raised("TypeError")
    ELSE IF relativePath.t \in {"list", "tuple"}
         THEN Returned(os_path_join(directoryPath, relativePath.v))
         ELSE IF relativePath.t = "str"
              THEN Returned(os_path_join(directoryPath, relativePath.v))
              ELSE ReturnedNone

----------------------------------------------------------------------------
(* A scenario: the run directory and the output data built on it         *)
(* (PilatesRunInputDirectory, src/src/input.py; PilatesOutputData,         *)
(* src/src/outputDataDirectory.py)                                         *)

MaxYears == 2   \* the most years a run directory is constructed with
MaxRuns == 2    \* the largest asimLiteIterations

BaseFolderNames == {"/x/y", "https://x/y"}
YearLists == UNION {[1..m -> Years] : m \in 0..MaxYears}
Regions == {"SFBay", "Austin", "-"}

NoRun == [k |-> "None"]
NoOut == [k |-> "None"]

\* Geometry.__init__: nothing is read.  by: the constructor that built the
\* instance; gdf: _gdf is not None; loads: the load() calls that read the
\* spatial data; reads: the reads of the property gdf
Geometry(by) == [cls |-> "Geometry", by |-> by, gdf |-> FALSE, loads |-> 0, reads |-> 0]

\* Geometry.load: gpd.read_file(self._path) raises when the class sets no
\* path or the file cannot be read
Geometry_load(g, readable) ==
    IF g.cls = "Geometry" \/ ~readable THEN [g |-> g, exc |-> TRUE]
    ELSE [g |-> [g EXCEPT !.gdf = TRUE, !.loads = Bump(@)], exc |-> FALSE]

\* SfBayGeometry.__init__, AustinGeometry.__init__: self.load() at the end
LoadedGeometry(cls, by) == Geometry_load([Geometry(by) EXCEPT !.cls = cls], TRUE).g

\* the geometry a constructor builds for a region
geometryOf(region, by) ==
    IF region = "SFBay" THEN LoadedGeometry("SfBayGeometry", by)
    ELSE IF region = "Austin" THEN LoadedGeometry("AustinGeometry", by)
    ELSE Geometry(by)

\* the default arguments geometry=Geometry(), evaluated when the modules are
\* imported
DefaultGeometries ==
    <<Geometry("ActivitySimRunInputDirectory.__init__"), Geometry("ActivitySimOutputData.__init__")>>

\* np.arange(n)
arange(n) == [i \in 1..n |-> i - 1]

\* the iterations from 0 on, without the base state
fromZero(n) == arange(n + 1)

\* [-1, *np.arange(asimLiteIterations) + 1]
iterationList(n) == <<-1>> \o [i \in 1..Len(arange(n)) |-> arange(n)[i] + 1]

\* "year-{0}-iteration-{1}".format(year, asimLiteIteration)
yearIteration(year, it) == "year-" \o format(year) \o "-iteration-" \o format(it)

\* ActivitySimRunInputDirectory.__init__
ActivitySimRunInputDirectory(path, g) ==
    [cls |-> "ActivitySimRunInputDirectory", directoryPath |-> path, geometry |-> g]

\* BeamRunInputDirectory.__init__, given a geometry and no region
BeamRunInputDirectory(path, numberOfIterations, g) ==
    [cls |-> "BeamRunInputDirectory", directoryPath |-> path,
     numberOfIterations |-> numberOfIterations, geometry |-> g]

\* the keys the two loops of PilatesRunInputDirectory.__init__ assign; every
\* assignment to a key stores a sub-run built from the same arguments
loopKeys(years, n) ==
    {<<years[j], iterationList(n)[i]>> : j \in DOMAIN years, i \in DOMAIN iterationList(n)}

\* the I/O of SkimsFile.__init__: .tmp/skims.omx is looked for, downloaded
\* from the root when it is not there, opened and read
skimsIO(onDisk) ==
    {"os.path.exists .tmp/skims.omx", "omx.open_file .tmp/skims.omx"}
        \cup (IF onDisk THEN {} ELSE {"urlretrieve skims.omx"})

\* the I/O of the geometry a constructor builds for a region
geometryIO(region) == IF region \in {"SFBay", "Austin"} THEN {"gpd.read_file"} ELSE {}

\* PilatesRunInputDirectory.__init__; beamIterations has its default.  io:
\* the I/O done while it ran.  It raises when the skims or the region's
\* shapefile cannot be read, and when the skims are to be downloaded from a
\* local root (urlretrieve: unknown url type).
ConstructRun ==
    /\ pilatesRun = NoRun
    /\ \E baseFolderName \in BaseFolderNames, years \in YearLists,
          asimLiteIterations \in 0..MaxRuns, region \in Regions,
          onDisk \in BOOLEAN, readable \in BOOLEAN :
          IF ~readable \/ (~onDisk /\ ~isLink(baseFolderName))
          THEN /\ pilatesRun' = [k |-> "raised"]
               /\ UNCHANGED geometries
          ELSE LET g == Len(geometries) + 1
                   sub(dir, key) == append(baseFolderName,
                                        ListArg(<<dir, yearIteration(key[1], key[2])>>)).val
               IN  /\ geometries' = Append(geometries, geometryOf(region, "PilatesRunInputDirectory"))
                   /\ pilatesRun' =
                        [k |-> "PilatesRunInputDirectory",
                         directoryPath |-> baseFolderName,
                         years |-> years,
                         asimLiteIterations |-> asimLiteIterations,
                         geometry |-> g,
                         asimRuns |-> [key \in loopKeys(years, asimLiteIterations) |->
                                          ActivitySimRunInputDirectory(sub("activitysim", key), g)],
                         beamRuns |-> [key \in loopKeys(years, asimLiteIterations) |->
                                          BeamRunInputDirectory(sub("beam", key), 0, g)],
                         io |-> skimsIO(onDisk) \cup geometryIO(region)]
    /\ UNCHANGED <<pilatesOut, cacheVars, hashVars, aggVars, rawVars, appendVars, anaVars, evVars>>

\* PilatesOutputData.__init__.  found: the sub-runs whose directories exist
\* under the root.  ActivitySimOutputData.__init__ asks the run's root for
\* final_land_use.csv.gz: urllib rejects a local path (ValueError), and a
\* remote root answers for the sub-runs found and with HTTPError for the
\* others, which are skipped.  BeamOutputData.__init__ only builds its
\* request, and takes the geometry of its input directory.
ConstructOutput ==
    /\ pilatesRun.k = "PilatesRunInputDirectory"
    /\ pilatesOut = NoOut
    /\ \E region \in Regions, found \in SUBSET DOMAIN pilatesRun.asimRuns :
          LET g == Len(geometries) + 1 IN
          /\ geometries' = Append(geometries, geometryOf(region, "PilatesOutputData"))
          /\ pilatesOut' =
               IF ~isLink(pilatesRun.directoryPath) /\ DOMAIN pilatesRun.asimRuns # {}
               THEN [k |-> "raised", found |-> found]
               ELSE [k |-> "PilatesOutputData",
                     found |-> found,
                     geometry |-> g,
                     asimRuns |-> [key \in found |-> [cls |-> "ActivitySimOutputData", geometry |-> g]],
                     beamRuns |-> [key \in DOMAIN pilatesRun.beamRuns |->
                                      [cls |-> "BeamOutputData",
                                       geometry |-> pilatesRun.beamRuns[key].geometry]],
                     mandatoryLocationsByTazByYear |-> [geometry |-> g],
                     io |-> geometryIO(region) \cup
                            (IF DOMAIN pilatesRun.asimRuns # {}
                             THEN {"urlopen final_land_use.csv.gz"} ELSE {})]
    /\ UNCHANGED <<pilatesRun, cacheVars, hashVars, aggVars, rawVars, appendVars, anaVars, evVars>>

InitScenario ==
    /\ geometries = DefaultGeometries
    /\ pilatesRun = NoRun
    /\ pilatesOut = NoOut
    /\ NoTables
    /\ NoObjs
    /\ NoAggregator
    /\ NoEvents
    /\ NoAccessor
    /\ NoAppend
    /\ NoAnalysis

NextScenario == ConstructRun \/ ConstructOutput

SpecScenario == InitScenario /\ [][NextScenario]_vars

----------------------------------------------------------------------------
(* C13 *)

Range(f) == {f[i] : i \in DOMAIN f}

\* the decimal numerals of the years and iterations of the runs
Numeral(n) ==
    CASE n = -1 -> "-1" [] n = 0 -> "0" [] n = 1 -> "1" [] n = 2 -> "2" [] n = 3 -> "3"
      [] n = 4 -> "4" [] n = 2010 -> "2010" [] n = 2015 -> "2015"

\* the sub-path of a sub-run under the root of the run directory
SubPath(dir, key) == "/" \o dir \o "/year-" \o Numeral(key[1]) \o "-iteration-" \o Numeral(key[2])

\* C13: a run directory constructed with years Y and iteration count N has,
\* in asimRuns and in beamRuns alike, exactly the keys Y x ({-1} \cup 1..N),
\* so never iteration 0 and always iteration -1; the sub-run under (y, i) is
\* rooted at <root>/activitysim/year-y-iteration-i, resp.
\* <root>/beam/year-y-iteration-i, and distinct keys have distinct roots.
C13_OneSubRunPerYearAndIteration ==
    pilatesRun.k = "PilatesRunInputDirectory" =>
        LET Y == Range(pilatesRun.years)
            N == pilatesRun.asimLiteIterations
            K == Y \X ({-1} \cup 1..N)
            A == pilatesRun.asimRuns
            B == pilatesRun.beamRuns
        IN  /\ DOMAIN A = K
            /\ DOMAIN B = K
            /\ \A key \in DOMAIN A \cup DOMAIN B : key[2] # 0
            /\ \A y \in Y : <<y, -1>> \in DOMAIN A \cap DOMAIN B
            /\ \A key \in K :
                  /\ A[key].directoryPath = pilatesRun.directoryPath \o SubPath("activitysim", key)
                  /\ B[key].directoryPath = pilatesRun.directoryPath \o SubPath("beam", key)
            /\ \A k1, k2 \in K : k1 # k2 =>
                  /\ A[k1].directoryPath # A[k2].directoryPath
                  /\ B[k1].directoryPath # B[k2].directoryPath

\* a remote run directory of two years and two iterations
C13_Witness ==
    /\ pilatesRun.k = "PilatesRunInputDirectory"
    /\ pilatesRun.years = <<2015, 2010>>
    /\ pilatesRun.asimLiteIterations = 2
    /\ Cardinality(DOMAIN pilatesRun.asimRuns) = 6
    /\ isLink(pilatesRun.directoryPath)

----------------------------------------------------------------------------
(* The raw table accessor (RawOutputFile, src/src/input.py) *)

\* the file names the accessors are constructed with
RelativePaths == {"persons.csv.gz", "final_trips.csv.gz"}

\* RawOutputFile.__init__; file is None, or the table SkimsFile hands over
RawOutputFile(directoryPath, relativePath, f) ==
    [k |-> "RawOutputFile", filePath |-> append(directoryPath, StrArg(relativePath)).val, file |-> f]

\* pd.read_csv(self.filePath, ...): the table of the file; FileNotFoundError
\* when a local file is absent, urllib's HTTPError when a remote one is
read_csv(filePath, src) ==
    IF src # 0 THEN [exc |-> "-", df |-> Tbl("csv", src, {})]
    ELSE IF isLink(filePath) THEN [exc |-> "HTTPError", df |-> NoneV]
    ELSE [exc |-> "FileNotFoundError", df |-> NoneV]

\* a file() that reads its source at every call
fileUncached(acc, src) ==
    LET r == read_csv(acc.filePath, src) IN
    IF r.exc = "-"
    THEN [acc |-> [acc EXCEPT !.file = r.df], ret |-> r.df, raised |-> FALSE, read |-> TRUE]
    ELSE [acc |-> acc, ret |-> NoneV, raised |-> r.exc # "FileNotFoundError", read |-> TRUE]

\* RawOutputFile.file
RawOutputFile_file(acc, src) ==
    IF acc.file = NoneV
    THEN LET r == read_csv(acc.filePath, src) IN
         IF r.exc = "-"
         THEN [acc |-> [acc EXCEPT !.file = r.df], ret |-> r.df, raised |-> FALSE, read |-> TRUE]
         ELSE IF r.exc = "FileNotFoundError"
         THEN [acc |-> acc, ret |-> NoneV, raised |-> FALSE, read |-> TRUE]
         ELSE [acc |-> acc, ret |-> NoneV, raised |-> TRUE, read |-> TRUE]
    ELSE [acc |-> acc, ret |-> acc.file, raised |-> FALSE, read |-> FALSE]

\* RawOutputFile.isDefined
isDefined(acc) == acc.file # NoneV

\* RawOutputFile.clean
clean(acc) == [acc EXCEPT !.file = NoneV]

\* a call of file(); before and src are the cell and the file it found
File ==
    /\ \E r \in {RawOutputFile_file(accessor, source)} :
          /\ accessor' = r.acc
          /\ rawLast' = [op |-> "file", before |-> accessor.file, src |-> source,
                         ret |-> r.ret, raised |-> r.raised, read |-> r.read]
    /\ UNCHANGED <<source, cacheVars, hashVars, aggVars, runVars, appendVars, anaVars, evVars, scratch>>

IsDefined ==
    /\ rawLast' = [op |-> "isDefined", before |-> accessor.file, src |-> source,
                   ret |-> isDefined(accessor), raised |-> FALSE, read |-> FALSE]
    /\ UNCHANGED <<accessor, source, cacheVars, hashVars, aggVars, runVars, appendVars, anaVars, evVars, scratch>>

Clean ==
    /\ accessor' = clean(accessor)
    /\ rawLast' = [op |-> "clean", before |-> accessor.file, src |-> source,
                   ret |-> NoneV, raised |-> FALSE, read |-> FALSE]
    /\ UNCHANGED <<source, cacheVars, hashVars, aggVars, runVars, appendVars, anaVars, evVars, scratch>>

\* the run rewrites or removes the file behind the accessor
ChangeSource ==
    /\ \E v \in 0..MaxVer : v # source /\ source' = v
    /\ UNCHANGED <<accessor, rawLast, cacheVars, hashVars, aggVars, runVars, appendVars, anaVars, evVars, scratch>>

\* an accessor on a local or on a remote root, its cell empty or holding the
\* table it was constructed with
InitRaw ==
    /\ \E d \in BaseFolderNames, p \in RelativePaths, f \in {NoneV, SkimsTable} :
          accessor = RawOutputFile(d, p, f)
    /\ source \in 0..MaxVer
    /\ rawLast = [op |-> "-"]
    /\ scratch = [k |-> "absent", ver |-> 0]
    /\ NoTables
    /\ NoObjs
    /\ NoAggregator
    /\ NoEvents
    /\ NoScenario
    /\ NoAppend
    /\ NoAnalysis

NextRaw == File \/ IsDefined \/ Clean \/ ChangeSource

SpecRaw == InitRaw /\ [][NextRaw]_vars

----------------------------------------------------------------------------
(* C14 *)

\* C14: a file() that succeeds on an empty cell leaves the parsed table in the
\* cell, and a file() that finds the cell filled returns what the cell holds,
\* reads nothing and leaves the cell as it is, whatever has become of the
\* source since; the cell stays filled until clean().
C14_MemoizedUntilClean ==
    /\ rawLast.op = "file" /\ rawLast.before = NoneV /\ ~rawLast.raised /\ rawLast.ret # NoneV =>
          /\ accessor.file = rawLast.ret
          /\ rawLast.ret = Tbl("csv", rawLast.src, {})
    /\ rawLast.op = "file" /\ rawLast.before # NoneV =>
          /\ rawLast.ret = rawLast.before
          /\ ~rawLast.read
          /\ ~rawLast.raised
          /\ accessor.file = rawLast.before
    /\ rawLast.op = "isDefined" =>
          /\ accessor.file = rawLast.before
          /\ rawLast.ret = (rawLast.before # NoneV)
    /\ rawLast.op = "clean" => accessor.file = NoneV

\* a file() that returned the memo of version 1 after the source had become
\* version 2
C14_Witness ==
    /\ rawLast.op = "file"
    /\ rawLast.before = Tbl("csv", 1, {})
    /\ rawLast.src = 2
    /\ rawLast.ret = Tbl("csv", 1, {})
    /\ accessor.file = Tbl("csv", 1, {})

----------------------------------------------------------------------------
(* C15 *)

\* C15: a file() that finds its cell empty and no file at filePath, local or
\* remote, does not raise, returns None and leaves the cell empty.
C15_MissingFileIsNone ==
    rawLast.op = "file" /\ rawLast.before = NoneV /\ rawLast.src = 0 =>
        /\ ~rawLast.raised
        /\ rawLast.ret = NoneV
        /\ accessor.file = NoneV

----------------------------------------------------------------------------
(* append on one directory (InputDirectory, src/src/input.py) *)

MaxSegments == 2    \* the most segments a call of append is given

Segments == {"a", "b"}
SegmentLists == UNION {[1..m -> Segments] : m \in 0..MaxSegments}

\* a single segment, a list or a tuple of segments, empty ones included
RelativePathArgs ==
    {StrArg(x) : x \in Segments} \cup {ListArg(xs) : xs \in SegmentLists}
        \cup {TupleArg(xs) : xs \in SegmentLists}

\* InputDirectory.__init__
InputDirectory(path) == [k |-> "InputDirectory", directoryPath |-> path, isLink |-> isLink(path)]

InitAppend ==
    /\ inputDirectory \in {InputDirectory(d) : d \in BaseFolderNames}
    /\ appendCalls = <<>>
    /\ NoTables
    /\ NoObjs
    /\ NoAggregator
    /\ NoEvents
    /\ NoScenario
    /\ NoAccessor
    /\ NoAnalysis

\* a call of append
CallAppend ==
    /\ Len(appendCalls) < MaxCount
    /\ \E relativePath \in RelativePathArgs :
          appendCalls' = Append(appendCalls,
              [arg |-> relativePath, out |-> append(inputDirectory.directoryPath, relativePath)])
    /\ UNCHANGED <<inputDirectory, cacheVars, hashVars, aggVars, runVars, rawVars, anaVars, evVars>>

NextAppend == CallAppend

SpecAppend == InitAppend /\ [][NextAppend]_vars

----------------------------------------------------------------------------
(* C16 *)

\* the root followed by its segments in their order, a "/" before each
RECURSIVE Joined(_, _)
Joined(root, segs) ==
    IF Len(segs) = 0 THEN root
    ELSE Joined(root, SubSeq(segs, 1, Len(segs) - 1)) \o "/" \o segs[Len(segs)]

\* C16: the path append returns is the root followed by the segments in the
\* order given, joined with "/" on a remote root and with the separator of
\* the platform on a local one: "https://x/y/a/b" and "/x/y/a/b" for
\* ["a", "b"]; two calls with the same argument return the same path.
C16_JoinsInOrder ==
    /\ \A i \in DOMAIN appendCalls :
          LET c == appendCalls[i] IN
          /\ c.out.exc = "-" => c.out = Returned(Joined(inputDirectory.directoryPath, c.arg.v))
          /\ c.arg = ListArg(<<"a", "b">>) =>
                c.out = Returned(IF inputDirectory.isLink THEN "https://x/y/a/b" ELSE "/x/y/a/b")
    /\ \A i, j \in DOMAIN appendCalls :
          appendCalls[i].arg = appendCalls[j].arg => appendCalls[i].out = appendCalls[j].out

\* ["a", "b"] appended twice to the remote root
C16_Witness ==
    /\ inputDirectory.directoryPath = "https://x/y"
    /\ inputDirectory.isLink
    /\ Len(appendCalls) = 2
    /\ \A i \in 1..2 : /\ appendCalls[i].arg = ListArg(<<"a", "b">>)
                         /\ appendCalls[i].out.val = "https://x/y/a/b"

----------------------------------------------------------------------------
(* C17 *)

\* C17: every call of append, on a remote or a local root, with a single
\* segment, a list, a tuple or an empty sequence, returns a path: it does not
\* raise and does not return None.
C17_AlwaysReturnsPath ==
    \A i \in DOMAIN appendCalls :
        /\ appendCalls[i].out.exc = "-"
        /\ ~appendCalls[i].out.none
        /\ appendCalls[i].out.val # ""

----------------------------------------------------------------------------
(* The scenario comparison (PilatesAnalysis,                               *)
(* src/src/outputDataDirectory.py)                                         *)

MaxScenarios == 2   \* the most scenarios an analysis compares

ScenarioNames == {"base", "alt", "high"}

\* the lists of distinct scenario names an analysis is constructed with
ScenarioLists ==
    {ns \in UNION {[1..m -> ScenarioNames] : m \in 0..MaxScenarios} :
        \A i, j \in DOMAIN ns : i # j => ns[i] # ns[j]}

\* a read of a scenario's by-year table gives a table with rows, an empty
\* table, or raises HTTPError
TableReads == {"rows", "empty", "HTTPError"}

\* the properties that read mandatoryLocationsByTazByYear.process(...)
PopulationProperties ==
    {"populationByTaz", "populationByRegionType", "populationByCountyAndRegionType",
     "populationByCounty"}
\* those that read tripModeCountPerYear / tripModeCountByCountyPerYear
CountProperties == {"tripModeCount", "tripModeCountByCounty"}
\* those that read modeVMTPerYear / modeEnergyPerYear inside try/except
NetworkProperties == {"vmtByMode", "energyByMode"}
Properties == PopulationProperties \cup CountProperties \cup NetworkProperties

\* PilatesAnalysis.__init__: self._runs and the empty dicts
PilatesAnalysis(names) ==
    [k |-> "PilatesAnalysis", runs |-> names, dicts |-> [p \in Properties |-> <<>>]]

\* the loop of a property over self._runs.items(): d[scenarioName] = table,
\* HTTPError skipped by the properties that catch it, raised by the others
RECURSIVE fillDict(_, _, _, _)
fillDict(p, d, names, st) ==
    IF Len(names) = 0 THEN [d |-> d, exc |-> FALSE]
    ELSE IF st[Head(names)] = "HTTPError"
         THEN IF p \in NetworkProperties
              THEN fillDict(p, d, Tail(names), st)
              ELSE [d |-> d, exc |-> TRUE]
         ELSE fillDict(p, (Head(names) :> st[Head(names)]) @@ d, Tail(names), st)

\* pd.concat(d, names=["scenario"] + ...): the tables by scenario name;
\* ValueError when there is none
concat(d) == IF DOMAIN d = {} THEN [exc |-> TRUE, val |-> <<>>] ELSE [exc |-> FALSE, val |-> d]

\* {key: val for key, val in d.items() if len(val) > 0}
nonEmpty(d) == [n \in {m \in DOMAIN d : d[m] # "empty"} |-> d[n]]

\* a property getter.  The loop variables scenarioName and data are bound
\* only when the loop ran, that is when the dict was empty and there is a
\* scenario; the names= argument of pd.concat reads one of them.
property(a, p, st) ==
    LET looped == DOMAIN a.dicts[p] = {}
        f == IF looped THEN fillDict(p, a.dicts[p], a.runs, st)
             ELSE [d |-> a.dicts[p], exc |-> FALSE]
        bound == looped /\ Len(a.runs) > 0
        namesRaise ==
            \/ ~bound
            \/ p \in PopulationProperties /\ a.runs[Len(a.runs)] \notin DOMAIN f.d
            \/ p \notin PopulationProperties /\ st[a.runs[Len(a.runs)]] = "HTTPError"
        c == concat(IF p \in NetworkProperties THEN nonEmpty(f.d) ELSE f.d)
    IN  IF f.exc \/ namesRaise \/ c.exc
        THEN [a |-> [a EXCEPT !.dicts[p] = f.d], raised |-> TRUE, ret |-> <<>>, computed |-> looped]
        ELSE [a |-> [a EXCEPT !.dicts[p] = f.d], raised |-> FALSE, ret |-> c.val, computed |-> looped]

\* a read of a property; before is the dict it found
ReadProperty ==
    /\ \E p \in Properties :
       \E r \in {property(analysis, p, scenarioTables)} :
          /\ analysis' = r.a
          /\ anaLast' = [op |-> p, before |-> analysis.dicts[p], raised |-> r.raised,
                         ret |-> r.ret, computed |-> r.computed]
    /\ UNCHANGED <<scenarioTables, cacheVars, hashVars, aggVars, runVars, rawVars, appendVars, evVars>>

InitAnalysis ==
    /\ \E names \in ScenarioLists :
          /\ analysis = PilatesAnalysis(names)
          /\ scenarioTables \in [Range(names) -> TableReads]
    /\ anaLast = [op |-> "-"]
    /\ NoTables
    /\ NoObjs
    /\ NoAggregator
    /\ NoEvents
    /\ NoScenario
    /\ NoAccessor
    /\ NoAppend

NextAnalysis == ReadProperty

SpecAnalysis == InitAnalysis /\ [][NextAnalysis]_vars

----------------------------------------------------------------------------
(* C18 *)

\* C18: a read of a scenario-comparison property that finds its per-scenario
\* tables already computed does not compute them again, does not raise and
\* returns their concatenation, keyed by scenario name.
C18_LaterReadsReturnMemo ==
    anaLast.op \in Properties /\ DOMAIN anaLast.before # {} =>
        /\ ~anaLast.computed
        /\ ~anaLast.raised
        /\ anaLast.ret = (IF anaLast.op \in NetworkProperties
                          THEN nonEmpty(anaLast.before) ELSE anaLast.before)
        /\ analysis.dicts[anaLast.op] = anaLast.before

----------------------------------------------------------------------------
(* C20 *)

\* the Geometry instances referred to within the scenario: by the run
\* directory, its sub-runs, the output data, its tables and its sub-runs
GeometryRefs ==
    {pilatesRun.geometry, pilatesOut.geometry, pilatesOut.mandatoryLocationsByTazByYear.geometry}
        \cup {pilatesRun.asimRuns[key].geometry : key \in DOMAIN pilatesRun.asimRuns}
        \cup {pilatesRun.beamRuns[key].geometry : key \in DOMAIN pilatesRun.beamRuns}
        \cup {pilatesOut.asimRuns[key].geometry : key \in DOMAIN pilatesOut.asimRuns}
        \cup {pilatesOut.beamRuns[key].geometry : key \in DOMAIN pilatesOut.beamRuns}

\* the Geometry instances the constructors of the scenario built
ScenarioGeometries ==
    {i \in DOMAIN geometries :
        geometries[i].by \in {"PilatesRunInputDirectory", "PilatesOutputData"}}

\* C20: once the run directory and the output data of a scenario are built,
\* every sub-run and table of the scenario that refers to a Geometry refers
\* to the same instance, and the scenario has constructed exactly one.
C20_OneSharedGeometry ==
    pilatesOut.k = "PilatesOutputData" =>
        /\ Cardinality(GeometryRefs) = 1
        /\ Cardinality(ScenarioGeometries) = 1

----------------------------------------------------------------------------
(* Geometry instances and the reads of gdf (src/src/input.py) *)

MaxGeometries == 2  \* the most Geometry instances the caller constructs

GeometryClasses == {"Geometry", "SfBayGeometry", "AustinGeometry"}

\* a constructor call.  A subclass loads in __init__, which raises when its
\* shapefile cannot be read or when otherFiles is left None (len(None))
NewGeometry ==
    /\ Len(geometries) < Len(DefaultGeometries) + MaxGeometries
    /\ \E cls \in GeometryClasses, otherFiles \in {"None", "dict"}, readable \in BOOLEAN :
          IF cls = "Geometry"
          THEN geometries' = Append(geometries, Geometry("caller"))
          ELSE \E r \in {Geometry_load([Geometry("caller") EXCEPT !.cls = cls], readable)} :
                  IF r.exc \/ otherFiles = "None"
                  THEN UNCHANGED geometries
                  ELSE geometries' = Append(geometries, r.g)
    /\ UNCHANGED <<pilatesRun, pilatesOut, cacheVars, hashVars, aggVars, rawVars, appendVars, anaVars, evVars>>

\* a read of the property gdf: load() when _gdf is None
ReadGdf ==
    /\ \E i \in DOMAIN geometries, readable \in BOOLEAN :
          /\ geometries[i].reads < MaxCount
          /\ \E g \in {[geometries[i] EXCEPT !.reads = @ + 1]} :
                geometries' = [geometries EXCEPT ![i] =
                                  IF g.gdf THEN g ELSE Geometry_load(g, readable).g]
    /\ UNCHANGED <<pilatesRun, pilatesOut, cacheVars, hashVars, aggVars, rawVars, appendVars, anaVars, evVars>>

InitGeometry ==
    /\ geometries = DefaultGeometries
    /\ pilatesRun = NoRun
    /\ pilatesOut = NoOut
    /\ NoTables
    /\ NoObjs
    /\ NoAggregator
    /\ NoEvents
    /\ NoAccessor
    /\ NoAppend
    /\ NoAnalysis

NextGeometry == NewGeometry \/ ReadGdf

SpecGeometry == InitGeometry /\ [][NextGeometry]_vars

----------------------------------------------------------------------------
(* C19 *)

\* C19: whatever is constructed and read, a Geometry instance has loaded its
\* spatial data at most once, and not before gdf was first read.
C19_LoadedOnceAndLazily ==
    \A i \in DOMAIN geometries :
        /\ geometries[i].loads <= 1
        /\ geometries[i].loads > 0 => geometries[i].reads > 0

----------------------------------------------------------------------------
(* C21 *)

\* a Geometry that names a shapefile; the base class names none, so its gdf
\* cannot be read and its crs is None
Usable(g) == g.cls # "Geometry"

\* C21: no run directory is returned that holds an unusable Geometry: a
\* region that is not defined makes the construction fail.
C21_UndefinedRegionIsFatal ==
    pilatesRun.k = "PilatesRunInputDirectory" => Usable(geometries[pilatesRun.geometry])

----------------------------------------------------------------------------
(* C22 *)

\* C22: the construction of a run directory, and of the output data on it,
\* does no I/O other than the load of the Geometry.
C22_ConstructionDoesNoIO ==
    /\ pilatesRun.k = "PilatesRunInputDirectory" => pilatesRun.io \subseteq {"gpd.read_file"}
    /\ pilatesOut.k = "PilatesOutputData" => pilatesOut.io \subseteq {"gpd.read_file"}

----------------------------------------------------------------------------
(* C23 *)

\* C23: the construction of the output data does not abort, and it builds a
\* sub-run for exactly the keys of the run directory whose directories were
\* found, in asimRuns and in beamRuns.
C23_NotFoundSubRunsAreSkipped ==
    pilatesOut # NoOut =>
        /\ pilatesOut.k = "PilatesOutputData"
        /\ DOMAIN pilatesOut.asimRuns = pilatesOut.found
        /\ DOMAIN pilatesOut.beamRuns = pilatesOut.found

----------------------------------------------------------------------------
(* The events file of a BEAM run (EventsFile, src/src/input.py) *)

MaxRows == 3    \* the most rows the events file holds
MaxChunk == 2   \* the largest chunk size tried

EventTypes == {"PathTraversal", "ModeChoice", "Replanning"}

\* the events file: row i holds an event of some type
EventSources ==
    UNION {{[i \in 1..m |-> [type |-> ty[i], row |-> i]] : ty \in [1..m -> EventTypes]} :
              m \in 0..MaxRows}

\* the lists of distinct types collectEvents is called with
EventTypeLists ==
    {<<>>, <<"PathTraversal">>, <<"ModeChoice">>,
     <<"PathTraversal", "ModeChoice">>, <<"ModeChoice", "PathTraversal">>}

\* a reader that hands over the first chunk only
firstChunk(src, n) == <<SubSeq(src, 1, IF Len(src) < n THEN Len(src) ELSE n)>>

\* pd.read_csv(..., chunksize=n): the rows n at a time; a file of no rows
\* gives one empty chunk
RECURSIVE chunks(_, _)
chunks(src, n) ==
    IF Len(src) <= n THEN <<src>>
    ELSE <<SubSeq(src, 1, n)>> \o chunks(SubSeq(src, n + 1, Len(src)), n)

\* chunk.loc[chunk["type"] == eventType, :]
ofType(chunk, eventType) == SelectSeq(chunk, LAMBDA r : r.type = eventType)

\* pd.concat(frames, axis=0)
RECURSIVE concatFrames(_)
concatFrames(frames) ==
    IF Len(frames) = 0 THEN <<>> ELSE Head(frames) \o concatFrames(Tail(frames))

\* EventsFile.collectEvents: the frames of every type are listed chunk by
\* chunk, and concatenated once all the chunks are read.  log: its reads and
\* its concatenations, in order
EventsFile_collectEvents(ef, src, n, eventTypes) ==
    LET cs == chunks(src, n)
        listOfFrames == [t \in Range(eventTypes) |-> [c \in DOMAIN cs |-> ofType(cs[c], t)]]
    IN  [ef |-> [ef EXCEPT !.eventTypes =
                    [t \in DOMAIN ef.eventTypes \cup Range(eventTypes) |->
                        IF t \in Range(eventTypes) THEN concatFrames(listOfFrames[t])
                        ELSE ef.eventTypes[t]]],
         log |-> [c \in DOMAIN cs |-> "chunk"] \o [i \in DOMAIN eventTypes |-> "concat"]]

\* a call of collectEvents
CollectEvents ==
    /\ \E eventTypes \in EventTypeLists :
       \E r \in {EventsFile_collectEvents(eventsFile, eventsSource, chunkSize, eventTypes)} :
          /\ eventsFile' = r.ef
          /\ evLast' = [op |-> "collectEvents", arg |-> eventTypes, log |-> r.log]
    /\ UNCHANGED <<eventsSource, chunkSize, cacheVars, hashVars, aggVars, runVars, rawVars,
                   appendVars, anaVars>>

\* EventsFile.__init__: self.eventTypes = dict(); the events file exists
InitEvents ==
    /\ eventsSource \in EventSources
    /\ chunkSize \in 1..MaxChunk
    /\ eventsFile = [k |-> "EventsFile", eventTypes |-> <<>>]
    /\ evLast = [op |-> "-"]
    /\ NoTables
    /\ NoObjs
    /\ NoAggregator
    /\ NoScenario
    /\ NoAccessor
    /\ NoAppend
    /\ NoAnalysis

NextEvents == CollectEvents

SpecEvents == InitEvents /\ [][NextEvents]_vars

----------------------------------------------------------------------------
(* C24 *)

\* the rows of the source of one type, in the order of the source
RowsOfType(t) == SelectSeq(eventsSource, LAMBDA r : r.type = t)

\* C24: after collectEvents every requested type has a table, which holds
\* the rows of the source of that type, each once and in the order of the
\* source, whatever the chunk size; and no table is concatenated before the
\* last chunk is read.
C24_CollectsAllThenConcatenates ==
    evLast.op = "collectEvents" =>
        /\ \A i \in DOMAIN evLast.arg :
              /\ evLast.arg[i] \in DOMAIN eventsFile.eventTypes
              /\ eventsFile.eventTypes[evLast.arg[i]] = RowsOfType(evLast.arg[i])
        /\ \A i, j \in DOMAIN evLast.log :
              evLast.log[i] = "concat" /\ evLast.log[j] = "chunk" => j < i

\* three rows read in two chunks, the path traversals on both sides of the
\* boundary
C24_Witness ==
    /\ evLast.op = "collectEvents"
    /\ evLast.arg = <<"PathTraversal", "ModeChoice">>
    /\ Len(eventsSource) = 3
    /\ chunkSize = 2
    /\ Len(eventsFile.eventTypes["PathTraversal"]) = 2
    /\ eventsFile.eventTypes["PathTraversal"][1].row = 1
    /\ eventsFile.eventTypes["PathTraversal"][2].row = 3

----------------------------------------------------------------------------
(* C25 *)

\* C25: when a read of a table raises, the cell of the table is empty
\* afterwards and none of its cache files exists.
C25_FailedReadLeavesNothing ==
    [][\A t \in Tabs :
          (Did("result", t) /\ last'.raised) =>
              /\ mem'[t] = NoneV
              /\ \A p \in OwnPaths(t) : disk'[p] = AbsentF]_vars
----------------------------------------------------------------------------
(* A by-year aggregator read again after clearCache() *)

\* OutputDataFrame.clearCache on the aggregator: its cache file, if any, is
\* removed and its cell emptied; the fields of the instance stay
AggClearCache ==
    /\ aggRet # "-"
    /\ aggMem' = AggNone
    /\ aggRet' = "cleared"
    /\ aggRaised' = FALSE
    /\ UNCHANGED <<aggClass, pilatesInputDict, loadable, lastIterationPerYear,
                   yearToDataFrame, searchVars, cacheVars, hashVars, dirVars>>

\* the sub-runs change: tables become readable or stop being readable
ChangeSubRuns ==
    /\ \E ld \in SUBSET KeysOf(pilatesInputDict) :
          /\ ld # loadable
          /\ loadable' = ld
    /\ UNCHANGED <<aggClass, pilatesInputDict, lastIterationPerYear, yearToDataFrame,
                   aggRet, aggMem, aggRaised, searchVars, cacheVars, hashVars, dirVars>>

NextReload == NextAgg \/ AggClearCache \/ ChangeSubRuns

SpecReload == InitAgg /\ [][NextReload]_vars

----------------------------------------------------------------------------
(* C26 *)

\* C26: the table an aggregator computes in the read that follows its
\* clearCache() holds, for every year, the table of a sub-run of the mapping
\* that can be read now: no year and no table of an earlier load() is left.
C26_ReloadReadsCurrentSubRuns ==
    [][(aggRet = "cleared" /\ aggMem = AggNone /\ aggMem'.k = "DataFrame") =>
          \A yr \in DOMAIN aggMem'.rows :
              <<yr, aggMem'.rows[yr].it>> \in loadable']_vars
----------------------------------------------------------------------------
(* C27 *)

\* the files _read of t opens
ReadPaths(t) ==
    IF ClassName(t) = "PersonTrips"
    THEN {GrpLocation(t, g) : g \in RequiredTables}
    ELSE {DiskLocation(t)}

\* the files the last operation wrote for t
Written(l, t) == {l.ev[i].p : i \in EvOfTab(l, "write", t)}

\* C27: whenever isCached() of a table is true, every file its _read opens
\* exists (for PersonTrips: the file of each required event type); and
\* isCached() is true after an operation whose cache writes all succeeded.
C27_CachedMeansEveryFileExists ==
    [][\A t \in Tabs :
          /\ IsCachedOn(disk', t) => \A p \in ReadPaths(t) : disk'[p] # AbsentF
          /\ (Written(last', t) # {} /\ \A p \in Written(last', t) : IsParquet(disk'[p]))
                => IsCachedOn(disk', t)]_vars
----------------------------------------------------------------------------
(* C28 *)

\* C28: whenever a table has a value in its cell and a cache that can be
\* deserialized, the cache holds that value, so that a fresh instance reading
\* the cache gets the table the instance holds.
C28_CellAndCacheAgree ==
    \A t \in Tabs :
        (mem[t] # NoneV /\ ReadableCache(disk, t)) => HoldsValue(disk, t, mem[t])
----------------------------------------------------------------------------
(* load() of a network aggregator, one attempt of its search at a time *)

\* PilatesOutputData fills the mapping year by year and, within a year, in
\* the order of the iterations of the run
OrderedMappings ==
    {m \in Mappings :
        \A i, j \in DOMAIN m :
            i < j => \/ m[i][1] < m[j][1]
                     \/ m[i][1] = m[j][1] /\ m[i][2] < m[j][2]}

\* the keys of __lastIterationPerYear in the order of their insertion
RECURSIVE yearsInOrder(_, _)
yearsInOrder(keys, seen) ==
    IF keys = <<>> THEN seen
    ELSE yearsInOrder(Tail(keys),
            IF \E i \in DOMAIN seen : seen[i] = Head(keys)[1]
            THEN seen ELSE Append(seen, Head(keys)[1]))

\* a loop condition that lets one more value through
continuesBelow(x) == x > -3

\* while x > -2
continues(x) == x > -2

\* x of the first attempt of the year at the head of years
firstX(c, lipy, years) == IF years = <<>> THEN 0 ELSE startOfSearch(c, lipy, Head(years))

InitSearch ==
    /\ aggClass \in NetworkAggregators
    /\ pilatesInputDict \in OrderedMappings
    /\ loadable \in SUBSET KeysOf(pilatesInputDict)
    /\ lastIterationPerYear = <<>>
    /\ yearToDataFrame = <<>>
    /\ aggRet = "-"
    /\ aggMem = AggNone
    /\ aggRaised = FALSE
    /\ pending = <<>>
    /\ searchX = 0
    /\ attempts = [yr \in Years |-> <<>>]
    /\ NoTables
    /\ NoObjs
    /\ NoDirectories

\* load() is entered: its first loop
BeginLoad ==
    /\ aggRet = "-"
    /\ \E lipy \in {scanLargest(pilatesInputDict, lastIterationPerYear)} :
       \E years \in {yearsInOrder(pilatesInputDict, <<>>)} :
          /\ lastIterationPerYear' = lipy
          /\ pending' = years
          /\ searchX' = firstX(aggClass, lipy, years)
    /\ aggRet' = "loading"
    /\ UNCHANGED <<aggClass, pilatesInputDict, loadable, yearToDataFrame, aggMem, aggRaised,
                   attempts, cacheVars, hashVars, dirVars>>

\* one pass of the body of the while loop: the try and its except
Attempt ==
    /\ aggRet = "loading"
    /\ pending # <<>>
    /\ continues(searchX)
    /\ \E yr \in {Head(pending)} :
       \E ok \in {(<<yr, searchX>> \in KeysOf(pilatesInputDict)) /\ (<<yr, searchX>> \in loadable)} :
          /\ attempts' = [attempts EXCEPT ![yr] = Append(@, [x |-> searchX, ok |-> ok])]
          /\ yearToDataFrame' =
                IF ok THEN (yr :> SubRunTable(aggClass, yr, searchX)) @@ yearToDataFrame
                ELSE yearToDataFrame
          /\ searchX' = IF ok THEN -100 ELSE searchX - 1
    /\ UNCHANGED <<aggClass, pilatesInputDict, loadable, lastIterationPerYear, aggRet, aggMem,
                   aggRaised, pending, cacheVars, hashVars, dirVars>>

\* the while loop is left: the next year of the for loop
NextYear ==
    /\ aggRet = "loading"
    /\ pending # <<>>
    /\ ~continues(searchX)
    /\ pending' = Tail(pending)
    /\ searchX' = firstX(aggClass, lastIterationPerYear, Tail(pending))
    /\ UNCHANGED <<aggClass, pilatesInputDict, loadable, lastIterationPerYear, yearToDataFrame,
                   aggRet, aggMem, aggRaised, attempts, cacheVars, hashVars, dirVars>>

\* the for loop is left: load() returns and the getter assigns
Return ==
    /\ aggRet = "loading"
    /\ pending = <<>>
    /\ Assigned(IF any(yearToDataFrame) THEN "concat" ELSE "pd.DataFrame()", yearToDataFrame)
    /\ UNCHANGED <<aggClass, pilatesInputDict, loadable, lastIterationPerYear, yearToDataFrame,
                   searchVars, cacheVars, hashVars, dirVars>>

NextSearch == BeginLoad \/ Attempt \/ NextYear \/ Return

\* the interpreter goes on running load() until it returns
SpecSearch == InitSearch /\ [][NextSearch]_vars /\ WF_vars(NextSearch)

----------------------------------------------------------------------------
(* C29 *)

\* the search of year yr so far: at most its starting iteration + 2
\* attempts, none below -1, none after one that succeeded
BoundedSearch(yr) ==
    /\ \A i \in DOMAIN attempts[yr] :
          /\ attempts[yr][i].x >= -1
          /\ attempts[yr][i].ok => i = Len(attempts[yr])
    /\ attempts[yr] # <<>> => Len(attempts[yr]) <= attempts[yr][1].x + 2

\* load() has returned and the read gave a table
Returned29 == aggRet \in {"concat", "pd.DataFrame()"} /\ ~aggRaised /\ aggMem.k = "DataFrame"

\* C29: the backward search of a network aggregator terminates for every
\* mapping: a year gets at most its starting iteration + 2 attempts, none
\* below -1 and none after a success, and load() returns in the end, whichever
\* reads of sub-runs succeed and fail.
C29_SearchTerminates ==
    /\ [](\A yr \in Years : BoundedSearch(yr))
    /\ <>Returned29

\* load() returned after a year whose search ran out at -1 and a year found
\* on a second or later attempt
C29_Witness ==
    /\ Returned29
    /\ \E yr \in Years :
          /\ attempts[yr] # <<>>
          /\ Len(attempts[yr]) = attempts[yr][1].x + 2
          /\ \A i \in DOMAIN attempts[yr] : ~attempts[yr][i].ok
    /\ \E yr \in Years :
          /\ Len(attempts[yr]) >= 2
          /\ attempts[yr][Len(attempts[yr])].ok
----------------------------------------------------------------------------
(* The zipped bundle of trip utilities (TripUtilitiesFiles,                *)
(* src/src/input.py)                                                       *)

\* the folder .tmp/<hash>: absent, empty, or holding the files of
\* trip_mode_choice/ extracted from version ver of the bundle
NoFolder == [k |-> "absent", ver |-> 0]
EmptyFolder == [k |-> "empty", ver |-> 0]
Saved(v) == [k |-> "saved", ver |-> v]

\* TripUtilitiesFiles.__init__
TripUtilitiesFiles(directoryPath) ==
    [k |-> "TripUtilitiesFiles",
     filePath |-> append(directoryPath, StrArg("trip_mode_choice.zip")).val,
     file |-> NoneV]

\* urllib.request.urlopen(self.filePath): a path without a scheme is no url
\* (ValueError); a remote bundle that is not there answers 404 (HTTPError)
urlopen(filePath, src) ==
    IF ~isLink(filePath) THEN "ValueError"
    ELSE IF src = 0 THEN "HTTPError"
    ELSE "-"

\* pd.concat of the utilities tables read from the folder
Utilities(v) == Tbl("utilities", v, {})

\* TripUtilitiesFiles.file
TripUtilitiesFiles_file(acc, src, scr) ==
    IF acc.file # NoneV
    THEN [acc |-> acc, scr |-> scr, ret |-> acc.file, raised |-> FALSE, read |-> FALSE]
    ELSE IF scr.k = "absent"
    THEN \* os.makedirs(folderName), then the download inside the try
         LET r == urlopen(acc.filePath, src) IN
         IF r = "-"
         THEN [acc |-> [acc EXCEPT !.file = Utilities(src)], scr |-> Saved(src),
               ret |-> Utilities(src), raised |-> FALSE, read |-> TRUE]
         ELSE IF r = "FileNotFoundError"
         THEN [acc |-> acc, scr |-> EmptyFolder, ret |-> NoneV, raised |-> FALSE, read |-> TRUE]
         ELSE [acc |-> acc, scr |-> EmptyFolder, ret |-> NoneV, raised |-> TRUE, read |-> TRUE]
    ELSE IF scr.k = "empty"
    THEN \* os.listdir(folderName/trip_mode_choice): FileNotFoundError, outside the try
         [acc |-> acc, scr |-> scr, ret |-> NoneV, raised |-> TRUE, read |-> TRUE]
    ELSE [acc |-> [acc EXCEPT !.file = Utilities(scr.ver)], scr |-> scr,
          ret |-> Utilities(scr.ver), raised |-> FALSE, read |-> TRUE]

\* file() of the accessor, of either class
GetFile ==
    /\ \E r \in {IF accessor.k = "TripUtilitiesFiles"
                 THEN TripUtilitiesFiles_file(accessor, source, scratch)
                 ELSE RawOutputFile_file(accessor, source) @@ [scr |-> scratch]} :
          /\ accessor' = r.acc
          /\ scratch' = r.scr
          /\ rawLast' = [op |-> "get", before |-> accessor.file, src |-> source,
                         ret |-> r.ret, raised |-> r.raised, read |-> r.read]
    /\ UNCHANGED <<source, cacheVars, hashVars, aggVars, runVars, appendVars, anaVars, evVars>>

\* an accessor of either class on a local or on a remote root, nothing read
\* yet and no scratch folder
InitUtilities ==
    /\ \E d \in BaseFolderNames :
          accessor \in {TripUtilitiesFiles(d)} \cup {RawOutputFile(d, p, NoneV) : p \in RelativePaths}
    /\ source \in 0..MaxVer
    /\ rawLast = [op |-> "-"]
    /\ scratch = NoFolder
    /\ NoTables
    /\ NoObjs
    /\ NoAggregator
    /\ NoEvents
    /\ NoScenario
    /\ NoAppend
    /\ NoAnalysis

NextUtilities == GetFile \/ Clean \/ ChangeSource

SpecUtilities == InitUtilities /\ [][NextUtilities]_vars

----------------------------------------------------------------------------
(* C30 *)

\* the last call was a get() that gave no table
FailedBefore == rawLast.op = "get" /\ (rawLast.raised \/ rawLast.ret = NoneV)

\* C30: a get() that gives no table leaves the accessor and its scratch
\* folder as they were; a get() that follows it reports not-found again,
\* without raising, while the source is missing, and returns the table of the
\* source once the source is there.
C30_FailedGetChangesNothing ==
    [][rawLast'.op = "get" =>
          /\ (rawLast'.raised \/ rawLast'.ret = NoneV) =>
                (accessor' = accessor /\ scratch' = scratch)
          /\ (FailedBefore /\ source = 0) =>
                (~rawLast'.raised /\ rawLast'.ret = NoneV)
          /\ (FailedBefore /\ source # 0) =>
                (~rawLast'.raised /\ rawLast'.ret # NoneV /\ rawLast'.ret.ver = source)]_vars

============================================================================
